---------------------------- MODULE Spec2Model ----------------------------
(***************************************************************************)
(* Model of the eFatura supplier-invoice sync                              *)
(* (src/app/update_supplier_invoices.py).                                  *)
(*                                                                         *)
(* Part 1: the sync driver main(): the durable table file and ledger file, *)
(*         the in-memory worksheet, the per-UID loop, crashes and reruns.  *)
(* Part 2: EfaturaClient.list_dfes, the paginated listing loop.            *)
(*                                                                         *)
(* A table row is a record [uid, erro, ef, item]:                          *)
(*   uid  : the "UID" cell (UIDs are 1..MaxUid, sorted numerically),       *)
(*   erro : the "Erro" cell, as the length of its text (0 = blank),        *)
(*   ef   : the "Data eFatura" cell (0 = blank),                           *)
(*   item : the item columns, as the line's index (0 = blank).             *)
(* An error row has erro > 0 and item = 0 (it is written with ef = 0); a   *)
(* line row has erro = 0 and item >= 1; a line row whose item is 0 is a    *)
(* row that append_line_rows left half-written when a cell write raised.   *)
(***************************************************************************)
EXTENDS Integers, Sequences, FiniteSets, TLC

\* ------------------------------------------------------------------ bounds
MaxUid == 2          \* UIDs of the model: 1..MaxUid
MaxLines == 2        \* most line items a fetched document carries
MaxRefs == 1         \* most reference UIDs a line-less document carries
MaxDocsArg == 1      \* --max-docs is drawn from 0..MaxDocsArg
MaxSaveEvery == 2    \* save_every_docs is drawn from 0..MaxSaveEvery
ShortLen == 50       \* length of a short text (an exception's, "No Lines found (...)")
LongLen == 600       \* length of a long exception text
MaxRuns == 2         \* runs of main() in one behaviour
MaxPages == 4        \* the page cap of list_dfes (10000), scaled down
MaxPageLen == 2      \* items on one listing page
MaxListUid == 2      \* distinct UIDs the listing endpoint serves
MaxSheetRows == 3    \* data rows of a worksheet handed to delete_uid_rows
MaxKids == 2         \* children of the root of a document
MaxGrandKids == 1    \* children of a child of the root
MaxApps == 2         \* entries of a workflow
MaxDeps == 1         \* dependencies an app declares
MaxDepth == 3        \* nested calls of run_app the interpreter's stack holds
MaxTokenRetries == 3 \* self.retries of the auth manager
MaxText == 5         \* characters of an XML text
MaxRefUid == 3       \* referenced UIDs are drawn from 1..MaxRefUid
MaxOpens == 2        \* calls of ensure_workbook in one behaviour
MaxRows == 2         \* data rows of a sheet
MaxVersion == 2      \* distinct contents a file is saved with
Chunks == 2          \* pieces a file is written in
MaxRetries == 3      \* the configured retries are drawn from 1..MaxRetries

\* ------------------------------------------------------- program constants
ErrMax == 500        \* str(e)[:500]
Retries == 3         \* cfg.retries (fallback)

UIDS == 1..MaxUid
NoUid == 0
\* The listing item of a document: its UID and its authorized date.  The
\* date is a fixed attribute of the document; documents with an odd UID are
\* listed with a date (1), the others without (0 = extract_efatura_date_from_item
\* finds none).
ListedDate(u) == IF u % 2 = 1 THEN 1 ELSE 0
ExcLens == {ShortLen, LongLen}

VARIABLES
    file,            \* the durable table file: its data rows
    ledger,          \* the durable resume ledger file
    pc,              \* position of main()
    ws,              \* the in-memory worksheet: its data rows
    resume_state,    \* the in-memory ledger dict
    resume_uid,
    existing_uids,
    args,            \* rewrite_existing, max_docs, save_every_docs, save_every_seconds
    uids,            \* sorted(uid_to_item.keys())
    uid_to_efdate,
    idx,             \* enumerate(uids, start=1)
    added_docs,
    docs_since_save,
    lines,           \* len(lines) of the document in hand
    refs,            \* reference UIDs still to try
    exc,             \* length of str(e) of the exception in hand
    path,            \* branch the document took: "", "lines", "nolines",
                     \* "exc" (the fetch/parse raised), "exc_late" (a later
                     \* statement of the try block raised)
    stop,            \* how the loop ended: "none", "max", "auth" (the fetch
                     \* asked for re-authentication or was refused),
                     \* "locked" (a save raised PermissionError)
    prev,            \* history: the listing of the last run, when that run had
                     \* no rewrite flag and returned without an early stop
    new_rows,        \* history: rows appended for the UID in hand
    dangling,        \* history: the ledger's dangling started_uid at run start,
                     \* when the table then held rows for it
    had_rows,        \* history: the UIDs with rows in the table file at run start
    done,            \* history: UIDs marked completed in this run
    runs,            \* history: runs of main() started so far
    userinfo,        \* how the userinfo call of this run went: "none" (no run
                     \* in progress), "ok", "failed" (any exception but the
                     \* two auth ones: retries exhausted, a non-200 answer)
    last_exit,       \* history: how the last run of main() ended, its exit
                     \* code and the cause
    l_pc,            \* list_dfes: "idle", "paging", "returned",
                     \* "too_many_pages", "failed"
    page,
    page_size,
    records,
    seen_uids,
    seen_page_sigs,
    served,          \* history: the pages the endpoint has answered with
    last_obj,        \* history: the completion fields of the last answer
    r_pc,            \* _request: "idle", "loop", "done"
    r_retries,       \* self.retries
    r_attempts,
    r_retried_auth,
    r_out,           \* how _request ended: "", "response", "PermissionError",
                     \* "NeedsReauth", "RuntimeError"
    exchanges,       \* history: how each HTTP exchange of the call ended
    fs,              \* the files of the data directory: file name -> content
    sv_pc,           \* a save: "idle", "open", "write", "replace"
    sv_path,         \* path
    sv_new,          \* the content to save (the workbook, the ledger dict)
    sv_old,          \* history: what path held when the save was called
    xl_pc,           \* ensure_workbook: "closed", "open" (it returned),
                     \* "raised"
    xl_file,         \* the sheet in the table file
    xl_ws,           \* the worksheet ensure_workbook returned
    uid_map,
    xl_orig,         \* history: the sheet as it was first put in place
    xl_opens,        \* history: calls of ensure_workbook so far
    rf_pc,           \* the reference fallback of a document without lines: "idle", "loop", "done"
    rf_docs,         \* what each referenced UID answers with
    rf_all,          \* meta["ref_uids"] as parse_invoice_lines gave it
    ref_uids,        \* the references still to try
    rf_meta,         \* meta
    rf_meta0,        \* history: meta as parse_invoice_lines gave it
    rf_lines,        \* lines: 0 (none) or the UID of the document they come from
    rf_fetched,      \* history: the references fetched, in order
    rf_error_rows,   \* history: "No Lines found" rows appended
    ln_pc,           \* parse_lines on one line element: "idle", "read", "done"
    ln_in,           \* qty, unit_price, ext, net, total and the discount field as safe_float gives them: <<>> is None, <<v>> a number
    ln_discount,     \* discount
    ln_total,        \* line_total
    sx_pc,           \* safe_parse_xml: "idle", "raw", "cleaned", "returned", "raised"
    xml_text,        \* the text to parse, a sequence of characters
    cleaned,         \* sanitize_xml_text(xml_text) once it was computed
    sx_calls,        \* history: calls of sanitize_xml_text for this document
    sx_raw_failed,   \* history: the raw text did not parse
    dl_pc,           \* delete_uid_rows on a worksheet: "idle", "called", "returned"
    dl_ws,           \* the rows of the worksheet, the header row first
    dl_uid,          \* uid
    dl_deleted,      \* the number returned
    dl_ws0,          \* history: the rows when delete_uid_rows was called
    bf_pc,           \* backfill_efatura_dates on a worksheet: "idle", "called", "returned"
    bf_ws,           \* the worksheet
    bf_efd,          \* uid_to_efdate
    bf_updated,      \* the number returned
    bf_ws0,          \* history: the worksheet when the function was called
    lg_pc,           \* the ledger at run start: "idle", "file", "loaded", "computed", "raised"
    lg_file,         \* what the ledger file holds
    lg_state,        \* resume_state as load_resume_state returned it
    lg_resume,       \* resume_uid
    pk_pc,           \* _pick_document_node: "idle", "called", "returned"
    dfe_root,        \* the tree: the root, its children, their children
    pk_node,         \* the element returned, as its path from the root
    or_pc,           \* run_workflow: "idle", "loop" (between two apps), "app" (run_app is running), "returned", "raised"
    wf_apps,         \* workflow_config["apps"], each entry by its name ("" for none)
    continue_on_error,\* workflow_config["continue_on_error"]
    wf_idx,          \* the entry the loop is at
    results,         \* the results collected: the app and whether it succeeded
    dependencies,    \* get_dependencies() of each app loaded
    stack,           \* the calls of run_app in progress: the app and where the call is
    or_ret,          \* the result the last finished call of run_app returned
    called,          \* history: the apps run_workflow called run_app for
    ran,             \* history: the apps whose run() was invoked, with the result
    tk_pc,           \* get_valid_access_token: "idle", "load", "discover", "post", "returned", "raised"
    token_store,     \* the token store file: absent, or the tokens it holds
    tk_retries,      \* self.retries of the auth manager
    tk_attempt,      \* attempt of _post_token_endpoint
    tk_out,          \* what the call gave: "", "token", "NeedsReauth"
    tk_cause         \* history: why the refresh failed, "none" when it did not

disk == <<file, ledger>>
mem == <<ws, resume_state, resume_uid, existing_uids>>
inputs == <<args, uids, uid_to_efdate, userinfo>>
counters == <<idx, added_docs, docs_since_save>>
doc == <<lines, refs, exc, path>>
hist == <<prev, new_rows, dangling, had_rows, done, runs, last_exit>>
dvars == <<disk, pc, mem, inputs, counters, doc, stop, hist>>
lvars == <<l_pc, page, page_size, records, seen_uids, seen_page_sigs, served,
           last_obj>>
rvars == <<r_pc, r_retries, r_attempts, r_retried_auth, r_out, exchanges>>
svars == <<fs, sv_pc, sv_path, sv_new, sv_old>>
xvars == <<xl_pc, xl_file, xl_ws, uid_map, xl_orig, xl_opens>>
fvars == <<rf_pc, rf_docs, rf_all, ref_uids, rf_meta, rf_meta0, rf_lines, rf_fetched, rf_error_rows>>
pvars == <<ln_pc, ln_in, ln_discount, ln_total>>
sxvars == <<sx_pc, xml_text, cleaned, sx_calls, sx_raw_failed>>
dlvars == <<dl_pc, dl_ws, dl_uid, dl_deleted, dl_ws0>>
bfvars == <<bf_pc, bf_ws, bf_efd, bf_updated, bf_ws0>>
lgvars == <<lg_pc, lg_file, lg_state, lg_resume>>
pkvars == <<pk_pc, dfe_root, pk_node>>
orvars == <<or_pc, wf_apps, continue_on_error, wf_idx, results, dependencies, stack, or_ret, called, ran>>
tkvars == <<tk_pc, token_store, tk_retries, tk_attempt, tk_out, tk_cause>>
not_driver == <<lvars, rvars, svars, xvars, fvars, pvars, sxvars, dlvars, bfvars, lgvars, pkvars, orvars, tkvars>>
not_list == <<dvars, rvars, svars, xvars, fvars, pvars, sxvars, dlvars, bfvars, lgvars, pkvars, orvars, tkvars>>
not_request == <<dvars, lvars, svars, xvars, fvars, pvars, sxvars, dlvars, bfvars, lgvars, pkvars, orvars, tkvars>>
not_save == <<dvars, lvars, rvars, xvars, fvars, pvars, sxvars, dlvars, bfvars, lgvars, pkvars, orvars, tkvars>>
not_open == <<dvars, lvars, rvars, svars, fvars, pvars, sxvars, dlvars, bfvars, lgvars, pkvars, orvars, tkvars>>
not_refs == <<dvars, lvars, rvars, svars, xvars, pvars, sxvars, dlvars, bfvars, lgvars, pkvars, orvars, tkvars>>
not_lines == <<dvars, lvars, rvars, svars, xvars, fvars, sxvars, dlvars, bfvars, lgvars, pkvars, orvars, tkvars>>
not_xml == <<dvars, lvars, rvars, svars, xvars, fvars, pvars, dlvars, bfvars, lgvars, pkvars, orvars, tkvars>>
not_delete == <<dvars, lvars, rvars, svars, xvars, fvars, pvars, sxvars, bfvars, lgvars, pkvars, orvars, tkvars>>
not_backfill == <<dvars, lvars, rvars, svars, xvars, fvars, pvars, sxvars, dlvars, lgvars, pkvars, orvars, tkvars>>
not_ledger == <<dvars, lvars, rvars, svars, xvars, fvars, pvars, sxvars, dlvars, bfvars, pkvars, orvars, tkvars>>
not_pick == <<dvars, lvars, rvars, svars, xvars, fvars, pvars, sxvars, dlvars, bfvars, lgvars, orvars, tkvars>>
not_orch == <<dvars, lvars, rvars, svars, xvars, fvars, pvars, sxvars, dlvars, bfvars, lgvars, pkvars, tkvars>>
not_token == <<dvars, lvars, rvars, svars, xvars, fvars, pvars, sxvars, dlvars, bfvars, lgvars, pkvars, orvars>>
vars == <<dvars, lvars, rvars, svars, xvars, fvars, pvars, sxvars, dlvars, bfvars, lgvars, pkvars, orvars, tkvars>>

\* ----------------------------------------------------------- table store
Row(u, e, d, i) == [uid |-> u, erro |-> e, ef |-> d, item |-> i]

RowsOf(t, u) == SelectSeq(t, LAMBDA r : r.uid = u)

UidsIn(t) == {t[i].uid : i \in DOMAIN t}

IsErrorRow(r) == r.erro > 0
IsLineRow(r) == r.erro = 0

\* only the bottom row of the UID goes
delete_uid_rows_one(t, u) ==
    IF \E i \in DOMAIN t : t[i].uid = u
    THEN LET k == CHOOSE i \in DOMAIN t :
                    t[i].uid = u /\ \A j \in DOMAIN t : t[j].uid = u => j <= i
         IN SubSeq(t, 1, k - 1) \o SubSeq(t, k + 1, Len(t))
    ELSE t

\* delete_uid_rows: every row of the UID goes, the others keep their order
delete_uid_rows(t, u) == SelectSeq(t, LAMBDA r : r.uid # u)

\* the row is not written
append_error_row_lost(t, u, reason) == t

\* append_error_row: UID + text, every other column blank
append_error_row(t, u, reason) == Append(t, Row(u, reason, 0, 0))

\* append_line_rows: one row per line, in order
LineRows(u, efdate, n) == [i \in 1..n |-> Row(u, 0, efdate, i)]
append_line_rows(t, u, efdate, n) == t \o LineRows(u, efdate, n)

\* append_line_rows when the cell write of row j raises: rows 1..j-1 are
\* whole, row j has its first cells only (UID, blank Erro, supplier cells)
append_line_rows_raise(t, u, efdate, j) ==
    t \o LineRows(u, efdate, j - 1) \o <<Row(u, 0, 0, 0)>>

\* backfill_efatura_dates: fill the blank date of every row the map names
backfill_efatura_dates(t, known, efd) ==
    [i \in DOMAIN t |->
        IF t[i].uid \in known /\ t[i].uid \in DOMAIN efd
           /\ efd[t[i].uid] # 0 /\ t[i].ef = 0
        THEN [t[i] EXCEPT !.ef = efd[t[i].uid]]
        ELSE t[i]]

\* ------------------------------------------------------------ the ledger
EmptyLedger == [started_uid |-> NoUid, completed_uid |-> NoUid]

compute_resume_uid(state) ==
    IF state.started_uid # NoUid /\ state.started_uid # state.completed_uid
    THEN state.started_uid
    ELSE NoUid

\* ------------------------------------------------------------- _request
\* One HTTP exchange ends as: "ok" (a response, status 200), "http" (a
\* response with another status, a 401/403 without token text included),
\* "perm" (401/403 whose body mentions the token), "transient" (timeout,
\* connection or TLS error).  tok says whether the token provider still
\* yields a token when the auth retry asks for fresh headers.
Exchanges == {"ok", "http", "perm", "transient"}

RECURSIVE RequestFrom(_, _, _, _)
RequestFrom(attempts, retried_auth, resps, tok) ==
    IF attempts >= Retries THEN "RuntimeError"
    ELSE LET r == resps[attempts + 1] IN
         CASE r = "ok" -> "ok"
           [] r = "http" -> "http"
           [] r = "perm" ->
                IF ~retried_auth
                THEN IF tok THEN RequestFrom(attempts + 1, TRUE, resps, tok)
                     ELSE "NeedsReauth"
                ELSE "PermissionError"
           [] OTHER -> RequestFrom(attempts + 1, retried_auth, resps, tok)

Request(resps, tok) == RequestFrom(0, FALSE, resps, tok)

\* fetch_dfe_inner_xml + safe_parse_xml + parse_invoice_lines of one UID:
\* "NeedsReauth", "PermissionError", "error" (any other exception) or "doc"
FetchOutcome(tok0, resps, tok, body_ok) ==
    IF ~tok0 THEN "NeedsReauth"
    ELSE LET r == Request(resps, tok) IN
         CASE r = "ok" -> IF body_ok THEN "doc" ELSE "error"
           [] r = "http" -> "error"
           [] r = "RuntimeError" -> "error"
           [] OTHER -> r

FetchOutcomes ==
    {FetchOutcome(tok0, resps, tok, body_ok) :
        tok0 \in BOOLEAN, resps \in [1..Retries -> Exchanges],
        tok \in BOOLEAN, body_ok \in BOOLEAN}

\* ------------------------------------------------------------------ helpers
RECURSIVE SortedSeq(_)
SortedSeq(S) ==
    IF S = {} THEN <<>>
    ELSE LET m == CHOOSE x \in S : \A y \in S : x <= y
         IN <<m>> \o SortedSeq(S \ {m})

\* the text kept whole, whatever its length
Truncate_whole(len) == len

Truncate(len) == IF len > ErrMax THEN ErrMax ELSE len

Cur == IF idx \in DOMAIN uids THEN uids[idx] ELSE NoUid

Efdate(u) == IF u \in DOMAIN uid_to_efdate THEN uid_to_efdate[u] ELSE 0

NoArgs == [rewrite_existing |-> FALSE, max_docs |-> 0,
           save_every_docs |-> 0, save_every_seconds |-> 0]

NoPrev == [ok |-> FALSE, efd |-> <<>>]

\* how a run of main() ended: the exit code of the process (1 for an
\* exception that leaves main(), -1 while no run has ended) and the cause
Exit(c, why) == [code |-> c, cause |-> why]

NoExit == Exit(-1, "")

\* ------------------------------------------------------------ the sheet
\* Cell texts are written without their diacritics.  A blank cell (None or
\* "") is "".
COLUMNS_V1 ==
    <<"UID", "Erro", "Nome Fornecedor", "NIF Fornecedor", "Morada Fornecedor",
      "Data eFatura", "Data Documento", "Numero Documento", "Codigo Artigo",
      "Nome Artigo", "Quantidade", "Unidade Medida", "Preco Unitario",
      "Desconto", "Preco Total (linha)", "last_updated", "Exported">>

COLUMNS ==
    <<"UID", "Erro", "Nome Fornecedor", "NIF Fornecedor", "Morada Fornecedor",
      "Data eFatura", "Data Documento", "Tipo de Documento",
      "Numero Documento", "Codigo Artigo", "Nome Artigo", "Quantidade",
      "Unidade Medida", "Preco Unitario", "Desconto", "Preco Total (linha)",
      "last_updated", "Exported">>

DOC_PREFIX_TO_TIPO ==
    [pref \in {"FTE", "FRE", "TVE", "RCE", "NCE", "NDE", "DVE", "DTE", "NLE",
               "FT", "FS", "FR", "RC", "NC", "ND", "GR", "OR"} |->
        CASE pref = "FTE" -> "Fatura Eletronica"
          [] pref = "FRE" -> "Fatura Recibo Eletronica"
          [] pref = "TVE" -> "Talao de Venda Eletronico"
          [] pref = "RCE" -> "Recibo Eletronico"
          [] pref = "NCE" -> "Nota de Credito Eletronica"
          [] pref = "NDE" -> "Nota de Debito Eletronica"
          [] pref = "DVE" -> "Nota de Devolucao Eletronica"
          [] pref = "DTE" -> "Documento de Transporte Eletronico"
          [] pref = "NLE" -> "Nota de Lancamento Eletronica"
          [] pref = "FT" -> "Factura"
          [] pref = "FS" -> "Ticket"
          [] pref = "FR" -> "Factura-Recibo"
          [] pref = "RC" -> "Recibo"
          [] pref = "NC" -> "Nota de Credito"
          [] pref = "ND" -> "Nota de Debito"
          [] pref = "GR" -> "Guia de Remessa"
          [] pref = "OR" -> "Orcamento"]

\* str.strip() on the cell texts of the model
strip(v) ==
    CASE v = " UID " -> "UID"
      [] v = "Exported " -> "Exported"
      [] v = " CV0000000002 " -> "CV0000000002"
      [] v = " NC 9" -> "NC 9"
      [] v = "  " -> ""
      [] v = " 5 " -> "5"
      [] OTHER -> v

\* re.match(r"^\s*([A-Za-z]{1,4})\b", num): group 1, "" when there is no
\* match.  One to four letters, then a word boundary: "FT2024/1" (a digit
\* follows the letters) and "FATUR 1" (five letters) do not match.
match_prefix(num) ==
    CASE num = "FTE 0001" -> "FTE"
      [] num = "fre-7" -> "fre"
      [] num = "NC 9" -> "NC"
      [] num = "ZZ 5" -> "ZZ"
      [] OTHER -> ""

\* str.upper() on the prefixes of the model
upper(pref) == IF pref = "fre" THEN "FRE" ELSE pref

\* infer_tipo_documento(document_number) with doc_kind = ""
infer_tipo_documento(document_number) ==
    LET pref == upper(match_prefix(strip(document_number))) IN
      IF pref \in DOMAIN DOC_PREFIX_TO_TIPO THEN DOC_PREFIX_TO_TIPO[pref]
      ELSE ""

\* A sheet: the cells of row 1 and the cells of the rows below it.
NoSheet == [exists |-> FALSE, header |-> <<>>, rows |-> <<>>]

NoMap == <<>>

Sheet(h, rs) == [exists |-> TRUE, header |-> h, rows |-> rs]

RECURSIVE trim_trailing_empty(_)
trim_trailing_empty(out) ==
    IF out # <<>> /\ out[Len(out)] = ""
    THEN trim_trailing_empty(SubSeq(out, 1, Len(out) - 1))
    ELSE out

\* _read_header: every cell of row 1 stripped, trailing empty ones dropped
_read_header(sheet) ==
    trim_trailing_empty([c \in DOMAIN sheet.header |-> strip(sheet.header[c])])

\* list.index(x) + 1
Index(seq, x) ==
    CHOOSE i \in DOMAIN seq : seq[i] = x /\ \A j \in 1..(i - 1) : seq[j] # x

\* the cell at idx is blanked, nothing is shifted
insert_cols_overwrite(row, at) == [row EXCEPT ![at] = ""]

\* ws.insert_cols(at) on one row: the cells from at on move one to the right
insert_cols(row, at) ==
    SubSeq(row, 1, at - 1) \o <<"">> \o SubSeq(row, at, Len(row))

\* a header that has the names of the prior schema, in any order, is taken
\* for the prior schema
schema_of_by_names(header) ==
    IF header = COLUMNS THEN "v2"
    ELSE IF Len(header) = Len(COLUMNS_V1)
            /\ {header[c] : c \in DOMAIN header}
                 = {COLUMNS_V1[c] : c \in DOMAIN COLUMNS_V1}
         THEN "v1"
    ELSE "none"

\* header == COLUMNS / header == COLUMNS_V1 / neither
schema_of(header) ==
    IF header = COLUMNS THEN "v2"
    ELSE IF header = COLUMNS_V1 THEN "v1"
    ELSE "none"

\* the v1 -> v2 migration of ensure_workbook
migrate(sheet) ==
    LET header == _read_header(sheet)
        insert_at == Index(header, "Numero Documento")
        row1 == insert_cols(sheet.header, insert_at)
        col_docnum == Index(COLUMNS, "Numero Documento")
        col_tipo == Index(COLUMNS, "Tipo de Documento")
        backfill(row) ==
            LET tipo == infer_tipo_documento(row[col_docnum]) IN
              IF strip(row[col_tipo]) = "" /\ tipo # ""
              THEN [row EXCEPT ![col_tipo] = tipo]
              ELSE row
    IN Sheet([c \in DOMAIN row1 |->
                 IF c <= Len(COLUMNS) THEN COLUMNS[c] ELSE row1[c]],
             [r \in DOMAIN sheet.rows |->
                 backfill(insert_cols(sheet.rows[r], insert_at))])

\* uid_map: UID -> the rows that hold it (row 2 is the first data row)
build_uid_map(sheet) ==
    LET U == {strip(sheet.rows[r][1]) : r \in DOMAIN sheet.rows} \ {""} IN
      [u \in U |->
          SelectSeq([r \in DOMAIN sheet.rows |-> r + 1],
                    LAMBDA k : strip(sheet.rows[k - 1][1]) = u)]

\* Workbook() with the header written, nothing saved
NewWorkbook == Sheet(COLUMNS, <<>>)

\* ---------------------------------------------------- the reference fallback
\* The document in hand is UID OwnUid.  A field of meta holds the UID of the
\* document its value was read from, 0 when it is blank.
OwnUid == 1

RefUids == 1..MaxRefUid

SupplierKeys == {"supplier_name", "supplier_taxid", "supplier_address"}

\* meta of document u: s is what its three supplier fields hold
Meta(u, s) ==
    [supplier_name |-> s, supplier_taxid |-> s, supplier_address |-> s,
     issue_date |-> u, document_number |-> u, doc_kind |-> u]

\* what fetch + parse of a referenced UID gives: "fail" (any exception but
\* the two auth ones), "auth" (the auth-needed signal or PermissionError),
\* "empty" (a document without lines), "lines" (lines, supplier fields
\* filled), "lines_blank" (lines, supplier fields blank)
RefAnswers == {"fail", "auth", "empty", "lines", "lines_blank"}

HasLines(answer) == answer \in {"lines", "lines_blank"}

meta2(u, answer) == Meta(u, IF answer = "lines" THEN u ELSE 0)

\* ref_uids = [r for r in ref_uids if r and r != uid]
others(seq, uid) == SelectSeq(seq, LAMBDA r : r # 0 /\ r # uid)

\* every supplier field is taken from the reference
backfill_supplier_overwrite(m, m2) ==
    [k \in DOMAIN m |-> IF k \in SupplierKeys THEN m2[k] ELSE m[k]]

\* for k in (...): if not meta.get(k): meta[k] = meta2.get(k, "")
backfill_supplier(m, m2) ==
    [k \in DOMAIN m |->
        IF k \in SupplierKeys /\ m[k] = 0 THEN m2[k] ELSE m[k]]

\* the lists _find_reference_uids returns: no UID twice
RefLists ==
    {q \in UNION {[1..n -> RefUids] : n \in 0..MaxRefUid} :
        \A i, j \in DOMAIN q : q[i] = q[j] => i = j}

\* ------------------------------------------------------------ parse_lines
\* A number is an integer count of 1/1000 (45.00 is 45000); the products of
\* the quantities and prices of the model are whole counts.  An optional
\* number is <<>> (None) or <<v>>.
Scale == 1000

Cent == 10

\* x * y of two numbers
Times(x, y) == (x * y) \div Scale

\* the numbers of the model: quantities, unit prices, totals, discounts
Quantities == {100, 500, 10000}         \* 0.1, 0.5, 10
UnitPrices == {50, 330, 5000}           \* 0.05, 0.33, 5.00
Totals == {45000, 60000}                \* 45.00, 60.00
Discounts == {1000}                     \* 1.00

Opt(S) == {<<>>} \cup {<<v>> : v \in S}

NoFields == [qty |-> <<>>, unit_price |-> <<>>, ext |-> <<>>, net |-> <<>>,
             total |-> <<>>, discount |-> <<>>]

LineFields == [qty : Opt(Quantities), unit_price : Opt(UnitPrices),
               ext : Opt(Totals), net : Opt(Totals), total : Opt(Totals),
               discount : Opt(Discounts)]

\* round(x, 2) of x >= 0: the nearest whole cent; a value that lies half
\* way between two cents goes to either, as its binary float lies on one
\* side or the other
round2(x) ==
    LET lo == (x \div Cent) * Cent
        rem == x % Cent IN
      IF 2 * rem < Cent THEN {lo}
      ELSE IF 2 * rem > Cent THEN {lo + Cent}
      ELSE {lo, lo + Cent}

max(a, b) == IF a >= b THEN a ELSE b

\* the difference is not clamped
computed_discount_unclamped(f) ==
    IF f.ext # <<>> /\ f.qty # <<>> /\ f.unit_price # <<>>
    THEN {<<d>> : d \in round2(Times(f.unit_price[1], f.qty[1]) - f.ext[1])}
    ELSE IF f.net # <<>> /\ f.qty # <<>> /\ f.unit_price # <<>>
    THEN {<<d>> : d \in round2(Times(f.unit_price[1], f.qty[1]) - f.net[1])}
    ELSE {<<>>}

\* the "if discount is None" block: the values discount may end with
computed_discount(f) ==
    IF f.ext # <<>> /\ f.qty # <<>> /\ f.unit_price # <<>>
    THEN {<<d>> : d \in
            round2(max(Times(f.unit_price[1], f.qty[1]) - f.ext[1], 0))}
    ELSE IF f.net # <<>> /\ f.qty # <<>> /\ f.unit_price # <<>>
    THEN {<<d>> : d \in
            round2(max(Times(f.unit_price[1], f.qty[1]) - f.net[1], 0))}
    ELSE {<<>>}

\* the extension amount is looked at before the net total
first_present_ext_first(f) ==
    IF f.ext # <<>> THEN f.ext
    ELSE IF f.net # <<>> THEN f.net
    ELSE f.total

\* for v in (net, ext, total): if v is not None: line_total = v; break
first_present(f) ==
    IF f.net # <<>> THEN f.net
    ELSE IF f.ext # <<>> THEN f.ext
    ELSE f.total

\* ------------------------------------------------------ sanitize_xml_text
\* The characters of an XML text: "<", "&", ";", "#", the letter "x", the
\* digit "1", "amp" (the three letters a, m, p), "g" (a character that is
\* neither a word character nor any of the others, such as "!") and "ctl"
\* (a control character of [\x00-\x08\x0B\x0C\x0E-\x1F]).
Chars == {"<", "&", ";", "#", "x", "1", "amp", "g", "ctl"}

Texts == UNION {[1..n -> Chars] : n \in 0..MaxText}

IsWord(c) == c \in {"x", "1", "amp"}
IsDigit(c) == c = "1"
IsHex(c) == c = "1"

\* (?:#\d+|#x[0-9a-fA-F]+|\w+) matches s[i..j] whole
EntityBody(s, i, j) ==
    \/ i <= j /\ \A k \in i..j : IsWord(s[k])
    \/ i < j /\ s[i] = "#" /\ \A k \in (i + 1)..j : IsDigit(s[k])
    \/ i + 1 < j /\ s[i] = "#" /\ s[i + 1] = "x"
       /\ \A k \in (i + 2)..j : IsHex(s[k])

\* the "&" at i is followed by (?:#\d+|#x[0-9a-fA-F]+|\w+);
entity_at(s, i) ==
    \E j \in (i + 2)..Len(s) : s[j] = ";" /\ EntityBody(s, i + 1, j - 1)

\* s.find("<") + 1: 0 when there is none
find_lt(s) ==
    IF \E i \in DOMAIN s : s[i] = "<"
    THEN CHOOSE i \in DOMAIN s : s[i] = "<" /\ \A j \in 1..(i - 1) : s[j] # "<"
    ELSE 0

\* lt = s.find("<"); if lt > 0: s = s[lt:]
trim_leading(s) ==
    IF find_lt(s) > 1 THEN SubSeq(s, find_lt(s), Len(s)) ELSE s

\* _INVALID_XML_CHARS_RE.sub("", s)
remove_invalid(s) == SelectSeq(s, LAMBDA c : c # "ctl")

RECURSIVE escape_from(_, _)
\* every "&" is escaped, the one of an entity too
escape_from_all(s, i) ==
    IF i > Len(s) THEN <<>>
    ELSE (IF s[i] = "&" THEN <<"&", "amp", ";">> ELSE <<s[i]>>)
         \o escape_from(s, i + 1)

\* re.sub(r"&(?!(?:#\d+|#x[0-9a-fA-F]+|\w+);)", "&amp;", s) from i on;
\* the lookahead reads the text as it was before the substitution
escape_from(s, i) ==
    IF i > Len(s) THEN <<>>
    ELSE (IF s[i] = "&" /\ ~entity_at(s, i)
          THEN <<"&", "amp", ";">> ELSE <<s[i]>>)
         \o escape_from(s, i + 1)

sanitize_xml_text(s) ==
    IF s = <<>> THEN s
    ELSE escape_from(remove_invalid(trim_leading(s)), 1)

\* what ET.fromstring cannot take: a text that does not open with a tag, a
\* control character, an "&" that starts no entity
Malformed(s) ==
    \/ s = <<>>
    \/ s[1] # "<"
    \/ \E i \in DOMAIN s : s[i] = "ctl"
    \/ \E i \in DOMAIN s : s[i] = "&" /\ ~entity_at(s, i)

\* ------------------------------------------------------------ the files
\* A file name is the path of the table or of the ledger, with or without
\* ".tmp" appended to its suffix.
Paths == {"table", "ledger"}

Files == Paths \X BOOLEAN

\* path.with_suffix(path.suffix + ".tmp"), kept as the path itself
with_tmp_suffix_none(dest) == dest

\* path.with_suffix(path.suffix + ".tmp")
with_tmp_suffix(dest) == <<dest[1], TRUE>>

\* A content is a version v of the document written up to chunk n of
\* Chunks; no file is version 0.
Absent == [v |-> 0, n |-> 0]

Complete(v) == [v |-> v, n |-> Chunks]

\* os.replace(src, dst): in one step dst holds what src held and src is gone
os_replace(files, src, dst) ==
    [f \in DOMAIN files |->
        IF f = dst THEN files[src]
        ELSE IF f = src THEN Absent
        ELSE files[f]]

\* ------------------------------------------------------- the token store
\* token_store_path does not exist
NoStore == [held |-> FALSE, expires |-> "", refresh_token |-> FALSE]

\* the tokens of the store: expires_at against now + min_ttl_seconds is
\* "fresh", "stale" or "unknown" (no expires_at, none to be had from the
\* access token), and the refresh token is there or not
Tokens(e, r) == [held |-> TRUE, expires |-> e, refresh_token |-> r]

Expiries == {"fresh", "stale", "unknown"}

\* ---------------------------------------------------------------- Init
Init ==
    /\ file = <<>>
    /\ ledger = EmptyLedger
    /\ pc = "idle"
    /\ ws = <<>>
    /\ resume_state = EmptyLedger
    /\ resume_uid = NoUid
    /\ existing_uids = {}
    /\ args = NoArgs
    /\ uids = <<>>
    /\ uid_to_efdate = <<>>
    /\ idx = 1
    /\ added_docs = 0
    /\ docs_since_save = 0
    /\ lines = 0
    /\ refs = 0
    /\ exc = 0
    /\ path = ""
    /\ stop = "none"
    /\ prev = NoPrev
    /\ new_rows = <<>>
    /\ dangling = NoUid
    /\ had_rows = {}
    /\ done = {}
    /\ runs = 0
    /\ userinfo = "none"
    /\ last_exit = NoExit
    /\ l_pc = "idle"
    /\ page = 1
    /\ page_size = 1
    /\ records = <<>>
    /\ seen_uids = {}
    /\ seen_page_sigs = {}
    /\ served = <<>>
    /\ last_obj = [last |-> "absent", hasNext |-> "absent",
                   totalPages |-> 0, page |-> 0]
    /\ r_pc = "idle"
    /\ r_retries = 1
    /\ r_attempts = 0
    /\ r_retried_auth = FALSE
    /\ r_out = ""
    /\ exchanges = <<>>
    /\ fs = [f \in Files |-> Absent]
    /\ sv_pc = "idle"
    /\ sv_path = <<"table", FALSE>>
    /\ sv_new = 1
    /\ sv_old = Absent
    /\ xl_pc = "closed"
    /\ xl_file = NoSheet
    /\ xl_ws = NoSheet
    /\ uid_map = NoMap
    /\ xl_orig = xl_file
    /\ xl_opens = 0
    /\ rf_pc = "idle"
    /\ rf_docs = [u \in RefUids |-> "fail"]
    /\ rf_all = <<>>
    /\ ref_uids = <<>>
    /\ rf_meta = Meta(OwnUid, OwnUid)
    /\ rf_meta0 = Meta(OwnUid, OwnUid)
    /\ rf_lines = 0
    /\ rf_fetched = <<>>
    /\ rf_error_rows = 0
    /\ ln_pc = "idle"
    /\ ln_in = NoFields
    /\ ln_discount = <<>>
    /\ ln_total = <<>>
    /\ sx_pc = "idle"
    /\ xml_text = <<>>
    /\ cleaned = <<>>
    /\ sx_calls = 0
    /\ sx_raw_failed = FALSE
    /\ dl_pc = "idle"
    /\ dl_ws = <<>>
    /\ dl_uid = ""
    /\ dl_deleted = 0
    /\ dl_ws0 = <<>>
    /\ bf_pc = "idle"
    /\ bf_ws = NoSheet
    /\ bf_efd = <<>>
    /\ bf_updated = 0
    /\ bf_ws0 = NoSheet
    /\ lg_pc = "idle"
    /\ lg_file = [kind |-> "missing", state |-> <<>>]
    /\ lg_state = <<>>
    /\ lg_resume = "None"
    /\ pk_pc = "idle"
    /\ dfe_root = [name |-> "Dfe", dtc |-> "", kids |-> <<>>]
    /\ pk_node = <<>>
    /\ or_pc = "idle"
    /\ wf_apps = <<>>
    /\ continue_on_error = FALSE
    /\ wf_idx = 1
    /\ results = <<>>
    /\ dependencies = <<>>
    /\ stack = <<>>
    /\ or_ret = "none"
    /\ called = <<>>
    /\ ran = <<>>
    /\ tk_pc = "idle"
    /\ token_store = NoStore
    /\ tk_retries = 1
    /\ tk_attempt = 1
    /\ tk_out = ""
    /\ tk_cause = "none"

\* ------------------------------------------------------------- the driver
AllArgs == [rewrite_existing : BOOLEAN, max_docs : 0..MaxDocsArg,
            save_every_docs : 0..MaxSaveEvery, save_every_seconds : 0..1]

\* main() up to the loop: open the table, load the ledger, list, backfill.
\* At most max_runs runs are started in one behaviour.
StartRunWithin(max_runs, Args) ==
    /\ pc = "idle"
    /\ runs < max_runs
    /\ \E a \in Args, L \in SUBSET UIDS :
          LET efd == [u \in L |-> ListedDate(u)] IN
            /\ args' = a
            /\ uid_to_efdate' = efd
            /\ uids' = SortedSeq(L)
            /\ ws' = backfill_efatura_dates(file, UidsIn(file), efd)
    /\ userinfo' \in {"ok", "failed"}
    /\ last_exit' = NoExit
    /\ existing_uids' = UidsIn(file)
    /\ resume_state' = ledger
    /\ resume_uid' = compute_resume_uid(ledger)
    /\ idx' = 1
    /\ added_docs' = 0
    /\ docs_since_save' = 0
    /\ lines' = 0
    /\ refs' = 0
    /\ exc' = 0
    /\ path' = ""
    /\ stop' = "none"
    /\ new_rows' = <<>>
    /\ dangling' = IF compute_resume_uid(ledger) \in UidsIn(file)
                   THEN compute_resume_uid(ledger) ELSE NoUid
    /\ had_rows' = UidsIn(file)
    /\ done' = {}
    /\ pc' = "loop"
    /\ runs' = runs + 1
    /\ UNCHANGED <<disk, prev>>
    /\ UNCHANGED not_driver

StartRun == StartRunWithin(MaxRuns, AllArgs)

\* main() when list_dfes raises the auth-needed signal or PermissionError:
\* return 3 with nothing read into the table and nothing written
ListingFailsWithin(max_runs) ==
    /\ pc = "idle"
    /\ runs < max_runs
    /\ runs' = runs + 1
    /\ prev' = NoPrev
    /\ last_exit' = Exit(3, "listing_auth")
    /\ UNCHANGED <<disk, pc, mem, inputs, counters, doc, stop, new_rows,
                   dangling, had_rows, done>>
    /\ UNCHANGED not_driver

ListingFails == ListingFailsWithin(MaxRuns)

\* the other ways main() ends before the loop:
\*   "dns"             services host does not resolve: return 2
\*   "token"           the initial token check asks for re-authentication:
\*                     return 3
\*   "userinfo_auth"   userinfo raises the auth-needed signal or
\*                     PermissionError: return 3
\*   "listing_raised"  list_dfes raises anything else (retries exhausted, a
\*                     non-200 answer, too many pages): no handler, the
\*                     exception leaves main()
PrologueEnds == {"dns", "token", "userinfo_auth", "listing_raised"}

PrologueCode(why) ==
    CASE why = "dns" -> 2
      [] why = "listing_raised" -> 1
      [] OTHER -> 3

\* the listing that raised is taken as an empty one and the loop is entered
PrologueFailsWithin_swallowed(max_runs) ==
    /\ pc = "idle"
    /\ runs < max_runs
    /\ runs' = runs + 1
    /\ prev' = NoPrev
    /\ last_exit' = Exit(1, "listing_raised")
    /\ ws' = file
    /\ pc' = "final"
    /\ UNCHANGED <<disk, resume_state, resume_uid, existing_uids, inputs,
                   counters, doc, stop, new_rows, dangling, had_rows, done>>
    /\ UNCHANGED not_driver

PrologueFailsWithin(max_runs) ==
    /\ pc = "idle"
    /\ runs < max_runs
    /\ runs' = runs + 1
    /\ prev' = NoPrev
    /\ \E why \in PrologueEnds : last_exit' = Exit(PrologueCode(why), why)
    /\ UNCHANGED <<disk, pc, mem, inputs, counters, doc, stop, new_rows,
                   dangling, had_rows, done>>
    /\ UNCHANGED not_driver

PrologueFails == PrologueFailsWithin(MaxRuns)

\* every UID found in the table is rewritten
should_rewrite_always == TRUE

\* should_rewrite = args.rewrite_existing or (resume_uid == uid)
should_rewrite == args.rewrite_existing \/ resume_uid = Cur

max_docs_reached == args.max_docs # 0 /\ added_docs >= args.max_docs

\* the for loop is exhausted
LoopEnd ==
    /\ pc = "loop"
    /\ idx > Len(uids)
    /\ pc' = "final"
    /\ UNCHANGED <<disk, mem, inputs, counters, doc, stop, hist>>
    /\ UNCHANGED not_driver

\* if args.max_docs and added_docs >= args.max_docs: break
MaxDocsStop ==
    /\ pc = "loop"
    /\ idx <= Len(uids)
    /\ max_docs_reached
    /\ stop' = "max"
    /\ pc' = "final"
    /\ UNCHANGED <<disk, mem, inputs, counters, doc, hist>>
    /\ UNCHANGED not_driver

\* if uid_exists and not should_rewrite: continue
Skip ==
    /\ pc = "loop"
    /\ idx <= Len(uids)
    /\ ~max_docs_reached
    /\ Cur \in existing_uids /\ ~should_rewrite
    /\ idx' = idx + 1
    /\ UNCHANGED <<disk, pc, mem, inputs, added_docs, docs_since_save, doc,
                   stop, hist>>
    /\ UNCHANGED not_driver

\* delete the UID's rows when it is rewritten, then mark it started
MarkStarted ==
    /\ pc = "loop"
    /\ idx <= Len(uids)
    /\ ~max_docs_reached
    /\ ~(Cur \in existing_uids /\ ~should_rewrite)
    /\ ws' = IF Cur \in existing_uids /\ should_rewrite
             THEN delete_uid_rows(ws, Cur) ELSE ws
    /\ resume_state' = [resume_state EXCEPT !.started_uid = Cur]
    /\ ledger' = resume_state'
    /\ new_rows' = <<>>
    /\ lines' = 0
    /\ refs' = 0
    /\ exc' = 0
    /\ path' = ""
    /\ pc' = "fetch"
    /\ UNCHANGED <<file, resume_uid, existing_uids, inputs, counters, stop,
                   prev, dangling, had_rows, done, runs, last_exit>>
    /\ UNCHANGED not_driver

\* the primary fetch + parse of the UID in hand
Fetch ==
    /\ pc = "fetch"
    /\ \E out \in FetchOutcomes,
          n \in 0..MaxLines, k \in 0..MaxRefs, len \in ExcLens :
          CASE out \in {"NeedsReauth", "PermissionError"} ->
                 /\ stop' = "auth"
                 /\ pc' = "final"
                 /\ UNCHANGED <<lines, refs, exc>>
            [] out = "error" ->
                 /\ exc' = len
                 /\ pc' = "except"
                 /\ UNCHANGED <<lines, refs, stop>>
            [] OTHER ->
                 /\ lines' = n
                 /\ refs' = IF n = 0 THEN k ELSE 0
                 /\ pc' = IF n = 0 THEN "refs" ELSE "append"
                 /\ UNCHANGED <<exc, stop>>
    /\ UNCHANGED <<disk, mem, inputs, counters, path, hist>>
    /\ UNCHANGED not_driver

\* one referenced document: a failure of any kind or no lines -> next one;
\* lines -> adopt them and stop looking
TryRef ==
    /\ pc = "refs"
    /\ refs > 0
    /\ \E n2 \in 0..MaxLines :        \* 0: fetch/parse failed or no lines
          /\ lines' = n2
          /\ refs' = IF n2 = 0 THEN refs - 1 ELSE 0
          /\ pc' = IF n2 = 0 THEN "refs" ELSE "append"
    /\ UNCHANGED <<disk, mem, inputs, counters, exc, path, stop, hist>>
    /\ UNCHANGED not_driver

\* still no lines: the "No Lines found" error row
NoLines ==
    /\ pc = "refs"
    /\ refs = 0
    /\ ws' = append_error_row(ws, Cur, ShortLen)
    /\ new_rows' = Append(new_rows, Row(Cur, ShortLen, 0, 0))
    /\ existing_uids' = existing_uids \cup {Cur}
    /\ path' = "nolines"
    /\ pc' = "mark"
    /\ UNCHANGED <<disk, resume_state, resume_uid, inputs, counters, lines,
                   refs, exc, stop, prev, dangling, had_rows, done, runs, last_exit>>
    /\ UNCHANGED not_driver

\* append_line_rows returns
AppendLines ==
    /\ pc = "append"
    /\ ws' = append_line_rows(ws, Cur, Efdate(Cur), lines)
    /\ new_rows' = new_rows \o LineRows(Cur, Efdate(Cur), lines)
    /\ added_docs' = added_docs + 1
    /\ existing_uids' = existing_uids \cup {Cur}
    /\ path' = "lines"
    /\ pc' = "mark"
    /\ UNCHANGED <<disk, resume_state, resume_uid, inputs, idx,
                   docs_since_save, lines, refs, exc, stop, prev,
                   dangling, had_rows, done, runs, last_exit>>
    /\ UNCHANGED not_driver

\* append_line_rows raises at a cell write of row j (the worksheet rejects
\* a value); the rows written so far stay and the handler takes over
AppendRaises ==
    /\ pc = "append"
    /\ \E j \in 1..lines :
          /\ ws' = append_line_rows_raise(ws, Cur, Efdate(Cur), j)
          /\ new_rows' = new_rows \o LineRows(Cur, Efdate(Cur), j - 1)
                                  \o <<Row(Cur, 0, 0, 0)>>
    /\ exc' = ShortLen
    /\ pc' = "except"
    /\ UNCHANGED <<disk, resume_state, resume_uid, existing_uids, inputs,
                   counters, lines, refs, path, stop, prev, dangling, had_rows, done,
                   runs, last_exit>>
    /\ UNCHANGED not_driver

\* due by documents only once the count has passed save_every_docs
checkpoint_due_late(due_by_time) ==
    /\ ~(args.save_every_docs = 0 /\ args.save_every_seconds = 0)
    /\ \/ args.save_every_docs > 0 /\ docs_since_save > args.save_every_docs
       \/ args.save_every_seconds > 0 /\ due_by_time

\* checkpoint_save(): save when due by documents or by time
checkpoint_due(due_by_time) ==
    /\ ~(args.save_every_docs = 0 /\ args.save_every_seconds = 0)
    /\ \/ args.save_every_docs > 0 /\ docs_since_save >= args.save_every_docs
       \/ args.save_every_seconds > 0 /\ due_by_time

\* checkpoint_save raises inside the try block, after the document's rows
\* were appended and the ledger was written: an OSError goes to the generic
\* handler, a PermissionError (the file is locked) breaks the loop
SaveRaises ==
    /\ pc = "ckpt"
    /\ \E due_by_time \in BOOLEAN : checkpoint_due(due_by_time)
    /\ path \in {"lines", "nolines"}
    /\ \E e \in {"OSError", "PermissionError"} :
          IF e = "OSError"
          THEN exc' = ShortLen /\ pc' = "except" /\ UNCHANGED stop
          ELSE stop' = "locked" /\ pc' = "final" /\ UNCHANGED exc
    /\ UNCHANGED <<disk, mem, inputs, counters, lines, refs, path, hist>>
    /\ UNCHANGED not_driver

\* except Exception as e: append_error_row(ws, uid, str(e)[:500])
ExceptRow ==
    /\ pc = "except"
    /\ ws' = append_error_row(ws, Cur, Truncate(exc))
    /\ new_rows' = Append(new_rows, Row(Cur, Truncate(exc), 0, 0))
    /\ existing_uids' = existing_uids \cup {Cur}
    /\ path' = IF path = "" /\ lines = 0 THEN "exc" ELSE "exc_late"
    /\ pc' = "mark"
    /\ UNCHANGED <<disk, resume_state, resume_uid, inputs, counters, lines,
                   refs, exc, stop, prev, dangling, had_rows, done, runs, last_exit>>
    /\ UNCHANGED not_driver

\* resume_state["completed_uid"] = uid; save_resume_state(...)
MarkCompleted ==
    /\ pc = "mark"
    /\ resume_state' = [resume_state EXCEPT !.completed_uid = Cur]
    /\ ledger' = resume_state'
    /\ resume_uid' = IF path # "nolines" /\ resume_uid = Cur
                     THEN NoUid ELSE resume_uid
    /\ docs_since_save' = docs_since_save + 1
    /\ done' = done \cup {Cur}
    /\ pc' = "ckpt"
    /\ UNCHANGED <<file, ws, existing_uids, inputs, idx, added_docs, doc,
                   stop, prev, new_rows, dangling, had_rows, runs, last_exit>>
    /\ UNCHANGED not_driver

CheckpointSave ==
    /\ pc = "ckpt"
    /\ \E due_by_time \in BOOLEAN :
          IF checkpoint_due(due_by_time)
          THEN file' = ws /\ docs_since_save' = 0
          ELSE UNCHANGED <<file, docs_since_save>>
    /\ idx' = idx + 1
    /\ pc' = "loop"
    /\ UNCHANGED <<ledger, mem, inputs, added_docs, doc, stop, hist>>
    /\ UNCHANGED not_driver

\* what main() holds in memory is gone once the process has ended
Forget ==
    /\ ws' = <<>>
    /\ resume_state' = EmptyLedger
    /\ resume_uid' = NoUid
    /\ existing_uids' = {}
    /\ args' = NoArgs
    /\ uids' = <<>>
    /\ uid_to_efdate' = <<>>
    /\ userinfo' = "none"
    /\ idx' = 1
    /\ added_docs' = 0
    /\ docs_since_save' = 0
    /\ lines' = 0
    /\ refs' = 0
    /\ exc' = 0
    /\ path' = ""
    /\ stop' = "none"
    /\ new_rows' = <<>>
    /\ dangling' = NoUid
    /\ had_rows' = {}
    /\ done' = {}

\* checkpoint_save(force=True); return 0
FinalSave ==
    /\ pc = "final"
    /\ file' = ws
    /\ prev' = IF stop = "none" /\ ~args.rewrite_existing
               THEN [ok |-> TRUE, efd |-> uid_to_efdate]
               ELSE NoPrev
    /\ last_exit' = Exit(0, stop)
    /\ pc' = "idle"
    /\ Forget
    /\ UNCHANGED <<ledger, runs>>
    /\ UNCHANGED not_driver

\* the process dies (kill, power loss, an exception nobody catches): only the
\* two files survive
Crash ==
    /\ pc # "idle"
    /\ pc' = "idle"
    /\ prev' = NoPrev
    /\ last_exit' = Exit(1, "died")
    /\ Forget
    /\ UNCHANGED <<disk, runs>>
    /\ UNCHANGED not_driver

Steps ==
    \/ LoopEnd
    \/ MaxDocsStop
    \/ Skip
    \/ MarkStarted
    \/ Fetch
    \/ TryRef
    \/ NoLines
    \/ AppendLines
    \/ AppendRaises
    \/ ExceptRow
    \/ MarkCompleted
    \/ CheckpointSave
    \/ FinalSave
    \/ Crash

Next == StartRun \/ ListingFails \/ PrologueFails \/ Steps \/ SaveRaises

Spec == Init /\ [][Next]_vars

\* the same driver with one more run and no periodic save (the table is
\* saved at the end of a run only, so checkpoint_save has nothing to raise),
\* for what only a third run shows
FinalSaveOnlyArgs == {a \in AllArgs : a.save_every_docs = 0
                                      /\ a.save_every_seconds = 0}

StartRunResume == StartRunWithin(MaxRuns + 1, FinalSaveOnlyArgs)

ListingFailsResume == ListingFailsWithin(MaxRuns + 1)

PrologueFailsResume == PrologueFailsWithin(MaxRuns + 1)

NextResume ==
    StartRunResume \/ ListingFailsResume \/ PrologueFailsResume \/ Steps

SpecResume == Init /\ [][NextResume]_vars

\* ============================================================== list_dfes
\* A listing item is an integer: a positive one is an item with that UID, a
\* negative one an item in which extract_uid_from_item finds no UID.
Items == {-1} \cup (1..MaxListUid)

UidOf(it) == IF it > 0 THEN it ELSE NoUid

Pages == UNION {[1..n -> Items] : n \in 0..MaxPageLen}

\* the completion fields of a response: "last"/"isLast" and
\* "hasNext"/"hasMore" are "true", "false" or "absent"; totalPages and page
\* are 0 when absent
Objs == [last : {"true", "false", "absent"},
         hasNext : {"true", "false", "absent"},
         totalPages : 0..3, page : 0..2]

\* the answers the endpoint of the model gives: at most one kind of
\* completion field in an answer, the page number together with the total
ServedObjs ==
    {o \in Objs :
        /\ (o.totalPages = 0) = (o.page = 0)
        /\ Cardinality({k \in {"last", "hasNext", "pages"} :
                 \/ k = "last" /\ o.last # "absent"
                 \/ k = "hasNext" /\ o.hasNext # "absent"
                 \/ k = "pages" /\ o.page # 0}) <= 1}

\* is_last_page: "true", "false" or "none"
is_last_page(obj) ==
    IF obj.last # "absent" THEN obj.last
    ELSE IF obj.hasNext # "absent"
         THEN (IF obj.hasNext = "true" THEN "false" ELSE "true")
    ELSE IF obj.totalPages > 0 /\ obj.page > 0
            /\ (obj.page >= obj.totalPages \/ obj.page + 1 >= obj.totalPages)
         THEN "true"
    ELSE "none"

page_uids(items) == SelectSeq(items, LAMBDA it : UidOf(it) # NoUid)

\* sig = (page_uids[0], page_uids[-1], len(page_uids)), or for a page with
\* no UID at all (str(items[0])[:200], len(items))
page_sig(items) ==
    LET pu == page_uids(items) IN
      IF pu # <<>> THEN <<pu[1], pu[Len(pu)], Len(pu)>>
      ELSE <<items[1], Len(items)>>

\* a page signature is never taken as seen
repeated_page_never(sig, seen) == FALSE

\* if sig in seen_page_sigs
repeated_page(sig, seen) == sig \in seen

\* a UID is dropped only when an earlier page had it
new_items_across_pages(items, seen) ==
    SelectSeq(items, LAMBDA it : ~(UidOf(it) # NoUid /\ UidOf(it) \in seen))

\* the items kept of a page: those without a UID, and the first of each UID
\* not seen before
RECURSIVE new_items(_, _)
new_items(items, seen) ==
    IF items = <<>> THEN <<>>
    ELSE LET it == Head(items) IN
           IF UidOf(it) # NoUid /\ UidOf(it) \in seen
           THEN new_items(Tail(items), seen)
           ELSE <<it>> \o new_items(Tail(items),
                                   (seen \cup {UidOf(it)}) \ {NoUid})

\* the page count is never taken as too high
too_many_pages_never(p) == FALSE

\* if page > 10000: raise RuntimeError("Aborting: too many pages ...");
\* MaxPages stands for the 10000 of the code
too_many_pages(p) == p > MaxPages

\* list_dfes is called
ListStart ==
    /\ l_pc = "idle"
    /\ \E ps \in 1..MaxPageLen : page_size' = ps
    /\ page' = 1
    /\ records' = <<>>
    /\ seen_uids' = {}
    /\ seen_page_sigs' = {}
    /\ served' = <<>>
    /\ l_pc' = "paging"
    /\ UNCHANGED <<last_obj, not_list>>

\* one turn of the while loop with a 200 JSON answer: the page `items`
\* with the completion fields `obj`
ListPage ==
    /\ l_pc = "paging"
    /\ \E items \in Pages, obj \in ServedObjs :
          /\ served' = Append(served, items)
          /\ last_obj' = obj
          /\ IF items = <<>> \/ repeated_page(page_sig(items), seen_page_sigs)
             THEN /\ l_pc' = "returned"
                  /\ UNCHANGED <<page, records, seen_uids, seen_page_sigs>>
             ELSE LET new == new_items(items, seen_uids) IN
                  /\ seen_page_sigs' = seen_page_sigs \cup {page_sig(items)}
                  /\ seen_uids' = (seen_uids \cup
                         {UidOf(items[i]) : i \in DOMAIN items}) \ {NoUid}
                  /\ IF new = <<>>
                     THEN l_pc' = "returned" /\ UNCHANGED <<page, records>>
                     ELSE /\ records' = records \o new
                          /\ IF is_last_page(obj) = "true"
                                \/ Len(items) < page_size
                             THEN l_pc' = "returned" /\ UNCHANGED page
                             ELSE /\ page' = page + 1
                                  /\ l_pc' = IF too_many_pages(page + 1)
                                             THEN "too_many_pages"
                                             ELSE "paging"
    /\ UNCHANGED <<page_size, not_list>>

\* the request raises, or the answer is not 200 or not JSON
ListFails ==
    /\ l_pc = "paging"
    /\ l_pc' = "failed"
    /\ UNCHANGED <<page, page_size, records, seen_uids, seen_page_sigs,
                   served, last_obj, not_list>>

NextList == ListStart \/ ListPage \/ ListFails

SpecList == Init /\ [][NextList]_vars

\* =============================================================== _request
\* how one HTTP exchange ends, the transient failures by their except branch
RequestExchanges == {"ok", "http", "perm", "timeout", "connection", "ssl"}

\* the loop is never left through its condition
budget_left_always(a, n) == TRUE

\* while attempts < self.retries
budget_left(a, n) == a < n

\* _request is called with self.retries = n
RequestStart ==
    /\ r_pc = "idle"
    /\ \E n \in 1..MaxRetries : r_retries' = n
    /\ r_attempts' = 0
    /\ r_retried_auth' = FALSE
    /\ r_out' = ""
    /\ exchanges' = <<>>
    /\ r_pc' = "loop"
    /\ UNCHANGED not_request

\* one turn of the while loop: the exchange ends as x; tok says whether
\* the token provider yields a token when fresh headers are asked for
RequestAttempt ==
    /\ r_pc = "loop"
    /\ budget_left(r_attempts, r_retries)
    /\ r_attempts' = r_attempts + 1
    /\ \E x \in RequestExchanges, tok \in BOOLEAN :
          /\ exchanges' = Append(exchanges, x)
          /\ CASE x \in {"ok", "http"} ->
                   /\ r_out' = "response" /\ r_pc' = "done"
                   /\ UNCHANGED r_retried_auth
              [] x = "perm" /\ ~r_retried_auth /\ tok ->
                   /\ r_retried_auth' = TRUE
                   /\ UNCHANGED <<r_out, r_pc>>
              [] x = "perm" /\ ~r_retried_auth /\ ~tok ->
                   /\ r_retried_auth' = TRUE
                   /\ r_out' = "NeedsReauth" /\ r_pc' = "done"
              [] x = "perm" /\ r_retried_auth ->
                   /\ r_out' = "PermissionError" /\ r_pc' = "done"
                   /\ UNCHANGED r_retried_auth
              [] OTHER -> UNCHANGED <<r_retried_auth, r_out, r_pc>>
    /\ UNCHANGED <<r_retries, not_request>>

\* the while condition fails: raise RuntimeError("Failed to call ...")
RequestExhausted ==
    /\ r_pc = "loop"
    /\ ~budget_left(r_attempts, r_retries)
    /\ r_out' = "RuntimeError"
    /\ r_pc' = "done"
    /\ UNCHANGED <<r_retries, r_attempts, r_retried_auth, exchanges,
                   not_request>>

NextRequest == RequestStart \/ RequestAttempt \/ RequestExhausted

SpecRequest == Init /\ [][NextRequest]_vars

\* the loop is sequential code and every exchange ends (timeout_sec): a
\* turn of the loop that can be taken is taken
SpecRequestFair ==
    SpecRequest /\ WF_vars(RequestAttempt) /\ WF_vars(RequestExhausted)

\* ====================================== safe_save_workbook, _atomic_write_json
\* safe_save_workbook(wb, path) / _atomic_write_json(path, obj) is called
SaveStart ==
    /\ sv_pc = "idle"
    /\ \E p \in Paths, v \in 1..MaxVersion :
          /\ sv_path' = <<p, FALSE>>
          /\ sv_new' = v
          /\ sv_old' = fs[<<p, FALSE>>]
    /\ sv_pc' = "open"
    /\ UNCHANGED fs
    /\ UNCHANGED not_save

\* wb.save(tmp) / tmp.write_text(...): the file is created or truncated
OpenTmp ==
    /\ sv_pc = "open"
    /\ fs' = [fs EXCEPT ![with_tmp_suffix(sv_path)] = [v |-> sv_new, n |-> 0]]
    /\ sv_pc' = "write"
    /\ UNCHANGED <<sv_path, sv_new, sv_old>>
    /\ UNCHANGED not_save

\* ... and written piece by piece
WriteChunk ==
    /\ sv_pc = "write"
    /\ LET tmp == with_tmp_suffix(sv_path) IN
         /\ fs[tmp].n < Chunks
         /\ fs' = [fs EXCEPT ![tmp].n = @ + 1]
         /\ sv_pc' = IF fs[tmp].n + 1 = Chunks THEN "replace" ELSE "write"
    /\ UNCHANGED <<sv_path, sv_new, sv_old>>
    /\ UNCHANGED not_save

\* os.replace(tmp, path)
Replace ==
    /\ sv_pc = "replace"
    /\ fs' = os_replace(fs, with_tmp_suffix(sv_path), sv_path)
    /\ sv_pc' = "idle"
    /\ UNCHANGED <<sv_path, sv_new, sv_old>>
    /\ UNCHANGED not_save

\* the process dies or the write raises at any step of the save: the files
\* stay as they are
SaveDies ==
    /\ sv_pc # "idle"
    /\ sv_pc' = "idle"
    /\ UNCHANGED <<fs, sv_path, sv_new, sv_old>>
    /\ UNCHANGED not_save

NextSave == SaveStart \/ OpenTmp \/ WriteChunk \/ Replace \/ SaveDies

SpecSave == Init /\ [][NextSave]_vars

\* ================================================= main: the reference loop
\* parse_invoice_lines(dfe_root) gave no lines
RefsStart ==
    /\ rf_pc = "idle"
    /\ \E q \in RefLists, d \in [RefUids -> RefAnswers],
          name \in {0, OwnUid}, taxid \in {0, OwnUid},
          address \in {0, OwnUid} :
          LET m == [Meta(OwnUid, 0) EXCEPT !.supplier_name = name,
                                          !.supplier_taxid = taxid,
                                          !.supplier_address = address] IN
            /\ rf_all' = q
            /\ ref_uids' = others(q, OwnUid)
            /\ rf_docs' = d
            /\ rf_meta' = m
            /\ rf_meta0' = m
    /\ rf_pc' = "loop"
    /\ UNCHANGED <<rf_lines, rf_fetched, rf_error_rows>>
    /\ UNCHANGED not_refs

\* one turn of "for ref_uid in ref_uids": the inner except Exception takes
\* every exception of the fetch and the parse, the auth ones included
RefTry ==
    /\ rf_pc = "loop"
    /\ ref_uids # <<>>
    /\ LET ref_uid == Head(ref_uids)
           answer == rf_docs[ref_uid] IN
         /\ rf_fetched' = Append(rf_fetched, ref_uid)
         /\ IF HasLines(answer)
            THEN /\ rf_meta' = backfill_supplier(rf_meta,
                                                 meta2(ref_uid, answer))
                 /\ rf_lines' = ref_uid
                 /\ rf_pc' = "done"
                 /\ UNCHANGED ref_uids
            ELSE /\ ref_uids' = Tail(ref_uids)
                 /\ UNCHANGED <<rf_meta, rf_lines, rf_pc>>
    /\ UNCHANGED <<rf_docs, rf_all, rf_meta0, rf_error_rows>>
    /\ UNCHANGED not_refs

\* the loop is exhausted and lines is still empty: append_error_row
RefsExhausted ==
    /\ rf_pc = "loop"
    /\ ref_uids = <<>>
    /\ rf_error_rows' = rf_error_rows + 1
    /\ rf_pc' = "done"
    /\ UNCHANGED <<rf_docs, rf_all, ref_uids, rf_meta, rf_meta0, rf_lines,
                   rf_fetched>>
    /\ UNCHANGED not_refs

NextRefs == RefsStart \/ RefTry \/ RefsExhausted

SpecRefs == Init /\ [][NextRefs]_vars

\* ============================================================= parse_lines
\* the numeric fields of one line element are read
ReadLine ==
    /\ ln_pc = "idle"
    /\ ln_in' \in LineFields
    /\ ln_pc' = "read"
    /\ UNCHANGED <<ln_discount, ln_total>>
    /\ UNCHANGED not_lines

\* discount and line_total of the line
ComputeLine ==
    /\ ln_pc = "read"
    /\ IF ln_in.discount # <<>>
       THEN ln_discount' = ln_in.discount
       ELSE ln_discount' \in computed_discount(ln_in)
    /\ IF first_present(ln_in) # <<>>
       THEN ln_total' = first_present(ln_in)
       ELSE IF ln_in.qty # <<>> /\ ln_in.unit_price # <<>>
       THEN ln_total' \in
               {<<t>> : t \in round2(Times(ln_in.qty[1],
                                           ln_in.unit_price[1]))}
       ELSE ln_total' = <<>>
    /\ ln_pc' = "done"
    /\ UNCHANGED ln_in
    /\ UNCHANGED not_lines

\* the next line element
NextLine ==
    /\ ln_pc = "done"
    /\ ln_pc' = "idle"
    /\ ln_in' = NoFields
    /\ ln_discount' = <<>>
    /\ ln_total' = <<>>
    /\ UNCHANGED not_lines

NextLines == ReadLine \/ ComputeLine \/ NextLine

SpecLines == Init /\ [][NextLines]_vars

\* ------------------------------------------- delete_uid_rows on a worksheet
\* a cell that holds no value, and a cell that holds a number
NoneCell == "None"
NumCell == "12"

\* isinstance(v, str)
is_str(v) == v \notin {NoneCell, NumCell}

\* what column 1 of a data row may hold
Column1 == {"CV0000000001", "CV0000000002", " CV0000000002 ", "UID", "", "  ",
            NoneCell, NumCell}

\* the uid arguments
UidArgs == {"CV0000000001", "CV0000000002", " CV0000000002 ", "UID", "",
            "  ", NoneCell}

\* row r of a worksheet: column 1 and, standing for the other cells, the
\* row number the row had when the worksheet was put together
WsRow(v, r) == [uid |-> v, id |-> r]

\* the worksheets: the header row and up to MaxSheetRows data rows
Worksheets ==
    UNION {{[r \in 1..(n + 1) |->
                IF r = 1 THEN WsRow("UID", 1) ELSE WsRow(c[r - 1], r)] :
            c \in [1..n -> Column1]} : n \in 0..MaxSheetRows}

\* ws.delete_rows(r, 1)
delete_rows(rows, r) == SubSeq(rows, 1, r - 1) \o SubSeq(rows, r + 1, Len(rows))

RECURSIVE delete_loop(_, _, _, _)
\* the loop goes down to row 1
delete_loop_header(rows, r, uid, deleted) ==
    IF r < 1 THEN [ws |-> rows, deleted |-> deleted]
    ELSE IF is_str(rows[r].uid) /\ strip(rows[r].uid) = uid
         THEN delete_loop(delete_rows(rows, r), r - 1, uid, deleted + 1)
         ELSE delete_loop(rows, r - 1, uid, deleted)

\* for r in range(ws.max_row, 1, -1): from row r down to row 2
delete_loop(rows, r, uid, deleted) ==
    IF r < 2 THEN [ws |-> rows, deleted |-> deleted]
    ELSE IF is_str(rows[r].uid) /\ strip(rows[r].uid) = uid
         THEN delete_loop(delete_rows(rows, r), r - 1, uid, deleted + 1)
         ELSE delete_loop(rows, r - 1, uid, deleted)

\* uid = (uid or "").strip()
norm_uid(uid) == IF uid = NoneCell THEN "" ELSE strip(uid)

\* delete_uid_rows(ws, uid): the worksheet left and the count returned
delete_uid_rows_ws(rows, uid) ==
    IF norm_uid(uid) = "" THEN [ws |-> rows, deleted |-> 0]
    ELSE delete_loop(rows, Len(rows), norm_uid(uid), 0)

\* delete_uid_rows is called with a worksheet and a uid
DeleteCall ==
    /\ dl_pc = "idle"
    /\ \E rows \in Worksheets, uid \in UidArgs :
          /\ dl_ws' = rows
          /\ dl_ws0' = rows
          /\ dl_uid' = uid
    /\ dl_deleted' = 0
    /\ dl_pc' = "called"
    /\ UNCHANGED not_delete

\* the body of delete_uid_rows
DeleteRows ==
    /\ dl_pc = "called"
    /\ dl_ws' = delete_uid_rows_ws(dl_ws, dl_uid).ws
    /\ dl_deleted' = delete_uid_rows_ws(dl_ws, dl_uid).deleted
    /\ dl_pc' = "returned"
    /\ UNCHANGED <<dl_uid, dl_ws0>>
    /\ UNCHANGED not_delete

\* the caller goes on
DeleteDone ==
    /\ dl_pc = "returned"
    /\ dl_pc' = "idle"
    /\ dl_ws' = <<>>
    /\ dl_ws0' = <<>>
    /\ dl_uid' = ""
    /\ dl_deleted' = 0
    /\ UNCHANGED not_delete

NextDelete == DeleteCall \/ DeleteRows \/ DeleteDone

SpecDelete == Init /\ [][NextDelete]_vars

\* ------------------------------------------------------- safe_parse_xml
\* safe_parse_xml is called with the text of one document
XmlStart ==
    /\ sx_pc = "idle"
    /\ xml_text' \in Texts
    /\ sx_pc' = "raw"
    /\ cleaned' = <<>>
    /\ sx_calls' = 0
    /\ sx_raw_failed' = FALSE
    /\ UNCHANGED not_xml

\* return ET.fromstring(xml_text.encode(...)): a malformed text raises, any
\* other text may still raise (tags that do not match)
ParseRaw ==
    /\ sx_pc = "raw"
    /\ \/ /\ ~Malformed(xml_text)
          /\ sx_pc' = "returned"
          /\ UNCHANGED sx_raw_failed
       \/ /\ sx_pc' = "cleaned"
          /\ sx_raw_failed' = TRUE
    /\ UNCHANGED <<xml_text, cleaned, sx_calls>>
    /\ UNCHANGED not_xml

\* except Exception: cleaned = sanitize_xml_text(xml_text), parsed in turn;
\* a second failure dumps the text and raises RuntimeError
ParseCleaned ==
    /\ sx_pc = "cleaned"
    /\ cleaned' = sanitize_xml_text(xml_text)
    /\ sx_calls' = sx_calls + 1
    /\ \/ /\ ~Malformed(cleaned')
          /\ sx_pc' = "returned"
       \/ sx_pc' = "raised"
    /\ UNCHANGED <<xml_text, sx_raw_failed>>
    /\ UNCHANGED not_xml

\* the call is over: the caller has the tree or the exception
XmlDone ==
    /\ sx_pc \in {"returned", "raised"}
    /\ sx_pc' = "idle"
    /\ xml_text' = <<>>
    /\ cleaned' = <<>>
    /\ sx_calls' = 0
    /\ sx_raw_failed' = FALSE
    /\ UNCHANGED not_xml

NextXml == XmlStart \/ ParseRaw \/ ParseCleaned \/ XmlDone

SpecXml == Init /\ [][NextXml]_vars

\* ========================================================= ensure_workbook
\* the header rows a table file is found with
Headers ==
    { COLUMNS,
      COLUMNS_V1,
      [COLUMNS_V1 EXCEPT ![1] = " UID "],
      COLUMNS_V1 \o <<"">>,
      [COLUMNS EXCEPT ![18] = "Exported "],
      [COLUMNS_V1 EXCEPT ![7] = "Numero Documento", ![8] = "Data Documento"],
      SubSeq(COLUMNS, 1, 17),
      COLUMNS \o <<"Notas">>,
      <<>> }

UidCells == {"CV0000000001", " CV0000000002 ", ""}

DocNums == {"", "FTE 0001", "fre-7", "FT2024/1", "ZZ 5", "123", " NC 9",
            "FATUR 1"}

\* a data row under header h: the UID cell, the document number cell, and
\* in every other named column a text that tells the column
DataRow(h, uid, num) ==
    [c \in DOMAIN h |->
        CASE strip(h[c]) = "UID" -> uid
          [] strip(h[c]) = "Numero Documento" -> num
          [] strip(h[c]) = "Tipo de Documento" -> ""
          [] OTHER -> strip(h[c])]

RowsUnder(h) ==
    UNION {[1..n -> {DataRow(h, uid, num) : uid \in UidCells,
                                            num \in DocNums}] :
              n \in 0..MaxRows}

Sheets == UNION {{Sheet(h, rs) : rs \in RowsUnder(h)} : h \in Headers}

\* a table file is there before the first run, or none is
PutSheet ==
    /\ xl_pc = "closed"
    /\ xl_opens = 0
    /\ xl_file = NoSheet
    /\ \E sheet \in Sheets :
          /\ xl_file' = sheet
          /\ xl_orig' = sheet
    /\ UNCHANGED <<xl_pc, xl_ws, uid_map, xl_opens>>
    /\ UNCHANGED not_open

\* ensure_workbook(path)
EnsureWorkbook ==
    /\ xl_pc = "closed"
    /\ xl_opens < MaxOpens
    /\ xl_opens' = xl_opens + 1
    /\ IF ~xl_file.exists
       THEN /\ xl_ws' = NewWorkbook
            /\ uid_map' = NoMap
            /\ xl_pc' = "open"
            /\ UNCHANGED xl_file
       ELSE LET schema == schema_of(_read_header(xl_file)) IN
            CASE schema = "v2" ->
                   /\ xl_ws' = xl_file
                   /\ uid_map' = build_uid_map(xl_file)
                   /\ xl_pc' = "open"
                   /\ UNCHANGED xl_file
              [] schema = "v1" ->
                   /\ xl_ws' = migrate(xl_file)
                   /\ xl_file' = migrate(xl_file)
                   /\ uid_map' = build_uid_map(migrate(xl_file))
                   /\ xl_pc' = "open"
              [] OTHER ->
                   /\ xl_pc' = "raised"
                   /\ UNCHANGED <<xl_file, xl_ws, uid_map>>
    /\ UNCHANGED xl_orig
    /\ UNCHANGED not_open

\* the process ends: what ensure_workbook returned is gone
CloseWorkbook ==
    /\ xl_pc \in {"open", "raised"}
    /\ xl_pc' = "closed"
    /\ xl_ws' = NoSheet
    /\ uid_map' = NoMap
    /\ UNCHANGED <<xl_file, xl_orig, xl_opens>>
    /\ UNCHANGED not_open

NextOpen == PutSheet \/ EnsureWorkbook \/ CloseWorkbook

SpecOpen == Init /\ [][NextOpen]_vars

\* ------------------------------------- backfill_efatura_dates on a worksheet
\* every cell counts as blank
is_blank_always(cur) == TRUE

\* cur is None or str(cur).strip() == "" ("" stands for an empty cell)
is_blank(cur) == strip(cur) = ""

\* the rows that get a date: for uid, rows in uid_row_map.items(), the rows
\* of a UID the listing has a date for, when their 'Data eFatura' is blank
filled_rows(sheet, row_map, efd) ==
    {r \in 2..(Len(sheet.rows) + 1) :
        \E u \in DOMAIN row_map :
            /\ \E k \in DOMAIN row_map[u] : row_map[u][k] = r
            /\ u \in DOMAIN efd /\ efd[u] # ""
            /\ is_blank(sheet.rows[r - 1][Index(COLUMNS, "Data eFatura")])}

\* backfill_efatura_dates(ws, uid_row_map, uid_to_efdate): the worksheet
\* left and the count returned; "now" is what now_local_iso() gives
backfill_sheet(sheet, row_map, efd) ==
    LET F == filled_rows(sheet, row_map, efd) IN
      [ws |-> [sheet EXCEPT !.rows =
                 [k \in DOMAIN sheet.rows |->
                    IF k + 1 \in F
                    THEN [sheet.rows[k] EXCEPT
                            ![Index(COLUMNS, "Data eFatura")] =
                                efd[strip(sheet.rows[k][1])],
                            ![Index(COLUMNS, "last_updated")] = "now"]
                    ELSE sheet.rows[k]]],
       updated |-> Cardinality(F)]

\* main() calls it on the worksheet ensure_workbook returned, with the
\* dates of the listing
BackfillCall ==
    /\ bf_pc = "idle"
    /\ \E n \in 0..MaxRows :
       \E u \in [1..n -> UidCells], e \in [1..n -> {"", "  ", "2024-01-05"}],
          L \in SUBSET {"CV0000000001", "CV0000000002"} :
          /\ bf_ws' = Sheet(COLUMNS,
                 [k \in 1..n |->
                    [DataRow(COLUMNS, u[k], "FTE 0001") EXCEPT
                        ![Index(COLUMNS, "Data eFatura")] = e[k]]])
          /\ bf_efd' = [x \in L |-> "2024-02-01"]
    /\ bf_ws0' = bf_ws'
    /\ bf_updated' = 0
    /\ bf_pc' = "called"
    /\ UNCHANGED not_backfill

BackfillRows ==
    /\ bf_pc = "called"
    /\ bf_ws' = backfill_sheet(bf_ws, build_uid_map(bf_ws), bf_efd).ws
    /\ bf_updated' = backfill_sheet(bf_ws, build_uid_map(bf_ws), bf_efd).updated
    /\ bf_pc' = "returned"
    /\ UNCHANGED <<bf_efd, bf_ws0>>
    /\ UNCHANGED not_backfill

BackfillDone ==
    /\ bf_pc = "returned"
    /\ bf_pc' = "idle"
    /\ bf_ws' = NoSheet
    /\ bf_ws0' = NoSheet
    /\ bf_efd' = <<>>
    /\ bf_updated' = 0
    /\ UNCHANGED not_backfill

NextBackfill == BackfillCall \/ BackfillRows \/ BackfillDone

SpecBackfill == Init /\ [][NextBackfill]_vars

\* ---------------------------------------------- the ledger file at run start
\* what a key of the ledger may hold: null, "", a UID, a number
LedgerValues == {NoneCell, "", "CV0000000001", "CV0000000002", NumCell}

\* the ledger file: missing, not readable as JSON, or a JSON object with
\* some of the two keys
LedgerFiles ==
    {[kind |-> k, state |-> <<>>] : k \in {"missing", "garbage"}}
    \cup {[kind |-> "json", state |-> st] :
             st \in UNION {[K -> LedgerValues] :
                              K \in SUBSET {"started_uid", "completed_uid"}}}

\* state.get(key)
get(state, key) == IF key \in DOMAIN state THEN state[key] ELSE NoneCell

\* a file that is not JSON makes the call raise
load_resume_state_strict(f) ==
    [raised |-> f.kind = "garbage",
     state |-> IF f.kind = "json" THEN f.state ELSE <<>>]

\* load_resume_state: {} for a missing file and for one json.loads rejects
load_resume_state(f) ==
    [raised |-> FALSE,
     state |-> IF f.kind = "json" THEN f.state ELSE <<>>]

\* started_uid is returned whenever it is a non-empty string
compute_resume_uid_started(state) ==
    IF is_str(get(state, "started_uid")) /\ get(state, "started_uid") # ""
    THEN get(state, "started_uid")
    ELSE NoneCell

\* compute_resume_uid on the dict load_resume_state returned
compute_resume_uid_of(state) ==
    IF /\ is_str(get(state, "started_uid"))
       /\ get(state, "started_uid") # ""
       /\ get(state, "started_uid") # get(state, "completed_uid")
    THEN get(state, "started_uid")
    ELSE NoneCell

\* what the last process left in the ledger file
LedgerFound ==
    /\ lg_pc = "idle"
    /\ lg_file' \in LedgerFiles
    /\ lg_pc' = "file"
    /\ UNCHANGED <<lg_state, lg_resume>>
    /\ UNCHANGED not_ledger

\* resume_state = load_resume_state(resume_state_path)
LoadResumeState ==
    /\ lg_pc = "file"
    /\ IF load_resume_state(lg_file).raised
       THEN lg_pc' = "raised" /\ UNCHANGED lg_state
       ELSE lg_pc' = "loaded" /\ lg_state' = load_resume_state(lg_file).state
    /\ UNCHANGED <<lg_file, lg_resume>>
    /\ UNCHANGED not_ledger

\* resume_uid = compute_resume_uid(resume_state)
ComputeResumeUid ==
    /\ lg_pc = "loaded"
    /\ lg_resume' = compute_resume_uid_of(lg_state)
    /\ lg_pc' = "computed"
    /\ UNCHANGED <<lg_file, lg_state>>
    /\ UNCHANGED not_ledger

\* the process ends
LedgerDone ==
    /\ lg_pc \in {"computed", "raised"}
    /\ lg_pc' = "idle"
    /\ lg_file' = [kind |-> "missing", state |-> <<>>]
    /\ lg_state' = <<>>
    /\ lg_resume' = NoneCell
    /\ UNCHANGED not_ledger

NextLedger == LedgerFound \/ LoadResumeState \/ ComputeResumeUid \/ LedgerDone

SpecLedger == Init /\ [][NextLedger]_vars

\* -------------------------------------------------- _pick_document_node
\* DTC_TO_ELEMENT, two of its nine entries
DTC_TO_ELEMENT == [c \in {"1", "5"} |-> IF c = "1" THEN "Invoice" ELSE "CreditNote"]

\* DOC_ELEMENT_TO_PREFIX.keys()
DOC_ELEMENTS == {DTC_TO_ELEMENT[c] : c \in DOMAIN DTC_TO_ELEMENT}

\* str.lower() on the element names of the model
lower(n) ==
    CASE n = "Invoice" -> "invoice"
      [] n = "CreditNote" -> "creditnote"
      [] n = "Dfe" -> "dfe"
      [] n = "Signature" -> "signature"
      [] n = "Body" -> "body"
      [] OTHER -> n

\* the local names of the elements, one of them in lower case
ChildNames == {"Invoice", "invoice", "CreditNote", "Signature", "Body"}

\* the documents: a root with its DocumentTypeCode, up to MaxKids children,
\* each with up to MaxGrandKids children
DfeRoots ==
    [name : {"Dfe", "Invoice"},
     dtc : {"1", " 5 ", "", "99"},
     kids : UNION {[1..n ->
                [name : ChildNames,
                 kids : UNION {[1..m -> {"Invoice", "invoice", "Body"}] :
                                 m \in 0..MaxGrandKids}]] :
              n \in 0..MaxKids}]

\* the name of the element at a path: <<>> the root, <<i>> a child, <<i, j>>
\* a child of a child
NameAt(root, at) ==
    CASE Len(at) = 0 -> root.name
      [] Len(at) = 1 -> root.kids[at[1]].name
      [] OTHER -> root.kids[at[1]].kids[at[2]]

\* root.iter(): the root, then each child followed by its own children
RECURSIVE iter_kids(_, _)
iter_kids(root, i) ==
    IF i > Len(root.kids) THEN <<>>
    ELSE <<<<i>>>> \o [j \in DOMAIN root.kids[i].kids |-> <<i, j>>]
         \o iter_kids(root, i + 1)

iter(root) == <<<<>>>> \o iter_kids(root, 1)

\* the first element of a sequence of paths whose name passes the test;
\* <<0>> when there is none
FirstAt(root, seq, Test(_)) ==
    IF \E k \in DOMAIN seq : Test(NameAt(root, seq[k]))
    THEN seq[CHOOSE k \in DOMAIN seq :
                /\ Test(NameAt(root, seq[k]))
                /\ \A h \in 1..(k - 1) : ~Test(NameAt(root, seq[h]))]
    ELSE <<0>>

\* list(dfe_root)
children(root) == [i \in DOMAIN root.kids |-> <<i>>]

\* _find_first_by_localnames(root, localnames): names compared in lower case
_find_first_by_localnames(root, localnames) ==
    FirstAt(root, iter(root),
            LAMBDA n : lower(n) \in {lower(w) : w \in localnames})

\* the deep search comes first
_pick_document_node_deep(root) ==
    IF _find_first_by_localnames(root, DOC_ELEMENTS) # <<0>>
    THEN _find_first_by_localnames(root, DOC_ELEMENTS)
    ELSE <<>>

\* _pick_document_node: the path of the element it returns
_pick_document_node(root) ==
    LET dtc == strip(root.dtc)
        expected == IF dtc \in DOMAIN DTC_TO_ELEMENT
                    THEN DTC_TO_ELEMENT[dtc] ELSE ""
        pass1 == FirstAt(root, children(root),
                         LAMBDA n : /\ n \notin {"Signature", "SignedInfo",
                                                  "KeyInfo"}
                                    /\ expected # "" /\ n = expected)
        pass2 == FirstAt(root, children(root), LAMBDA n : n \in DOC_ELEMENTS)
        found == _find_first_by_localnames(root, DOC_ELEMENTS)
    IN  IF pass1 # <<0>> THEN pass1
        ELSE IF pass2 # <<0>> THEN pass2
        ELSE IF found # <<0>> THEN found
        ELSE <<>>

\* parse_invoice_lines hands the parsed document over
PickCall ==
    /\ pk_pc = "idle"
    /\ dfe_root' \in DfeRoots
    /\ pk_node' = <<>>
    /\ pk_pc' = "called"
    /\ UNCHANGED not_pick

PickNode ==
    /\ pk_pc = "called"
    /\ pk_node' = _pick_document_node(dfe_root)
    /\ pk_pc' = "returned"
    /\ UNCHANGED dfe_root
    /\ UNCHANGED not_pick

PickDone ==
    /\ pk_pc = "returned"
    /\ pk_pc' = "idle"
    /\ dfe_root' = [name |-> "Dfe", dtc |-> "", kids |-> <<>>]
    /\ pk_node' = <<>>
    /\ UNCHANGED not_pick

NextPick == PickCall \/ PickNode \/ PickDone

SpecPick == Init /\ [][NextPick]_vars

\* ------------------------------------------------------- the orchestrator
\* self.apps.keys(): the apps loaded
LoadedApps == {"a", "b"}

\* the names a workflow entry or a dependency may give: an app loaded, or
\* one that is not
AppNames == LoadedApps \cup {"ghost"}

Frame(app, at, k) == [app |-> app, at |-> at, dep |-> k]

\* AppResult(success=...)
Result(app, success) == [app |-> app, success |-> success]

\* deps = app.get_dependencies()
deps_of(app) == dependencies[app]

\* run_workflow(workflow_config) starts; the apps loaded declare their
\* dependencies
WorkflowStart ==
    /\ or_pc = "idle"
    /\ wf_apps' \in UNION {[1..n -> AppNames \cup {""}] : n \in 0..MaxApps}
    /\ continue_on_error' \in BOOLEAN
    /\ dependencies' \in [LoadedApps ->
                            UNION {[1..n -> AppNames] : n \in 0..MaxDeps}]
    /\ wf_idx' = 1
    /\ results' = <<>>
    /\ stack' = <<>>
    /\ or_ret' = "none"
    /\ called' = <<>>
    /\ ran' = <<>>
    /\ or_pc' = "loop"
    /\ UNCHANGED not_orch

\* for idx, app_config in enumerate(apps_to_run): an entry without a name
\* is passed over, a named one goes to run_app; return results at the end
WorkflowStep ==
    /\ or_pc = "loop"
    /\ IF wf_idx > Len(wf_apps)
       THEN or_pc' = "returned" /\ UNCHANGED <<wf_idx, stack, called>>
       ELSE IF wf_apps[wf_idx] = ""
       THEN wf_idx' = wf_idx + 1 /\ UNCHANGED <<or_pc, stack, called>>
       ELSE /\ stack' = <<Frame(wf_apps[wf_idx], "check", 1)>>
            /\ called' = Append(called, wf_apps[wf_idx])
            /\ or_pc' = "app"
            /\ UNCHANGED wf_idx
    /\ UNCHANGED <<wf_apps, continue_on_error, results, dependencies, or_ret,
                   ran>>
    /\ UNCHANGED not_orch

Top == stack[Len(stack)]

\* the call of run_app on top returns success or failure to its caller
Return(success) ==
    /\ or_ret' = IF success THEN "ok" ELSE "fail"
    /\ stack' = SubSeq(stack, 1, Len(stack) - 1)

\* run_app: the app is not loaded, or its config is not valid -> a failure
\* result; else on to the dependencies.  validate_config is called outside
\* the try block: when it raises (the app of this repository does for a
\* "config_file" that is no path, Path(config["config_file"])) the
\* exception leaves run_app and run_workflow
RunAppCheck ==
    /\ or_pc = "app" /\ stack # <<>> /\ Top.at = "check"
    /\ \/ /\ Top.app \notin LoadedApps
          /\ Return(FALSE)
          /\ UNCHANGED or_pc
       \/ /\ Top.app \in LoadedApps
          /\ \E is_valid \in {"true", "false", "raises"} :
                CASE is_valid = "true" ->
                       /\ stack' = [stack EXCEPT ![Len(stack)].at = "deps"]
                       /\ UNCHANGED <<or_ret, or_pc>>
                  [] is_valid = "false" ->
                       Return(FALSE) /\ UNCHANGED or_pc
                  [] OTHER ->
                       or_pc' = "raised" /\ stack' = <<>> /\ UNCHANGED or_ret
    /\ UNCHANGED <<wf_apps, continue_on_error, wf_idx, results,
                   dependencies, called, ran>>
    /\ UNCHANGED not_orch

\* for dep_name in deps: dep_result = self.run_app(dep_name, ...); the
\* nested call raises RecursionError when the stack holds no further call
RunAppDep ==
    /\ or_pc = "app" /\ stack # <<>> /\ Top.at = "deps"
    /\ IF Top.dep > Len(deps_of(Top.app))
       THEN /\ stack' = [stack EXCEPT ![Len(stack)].at = "run"]
            /\ UNCHANGED or_pc
       ELSE IF Len(stack) >= MaxDepth
       THEN or_pc' = "raised" /\ stack' = <<>>
       ELSE /\ stack' = Append([stack EXCEPT ![Len(stack)].at = "wait"],
                               Frame(deps_of(Top.app)[Top.dep], "check", 1))
            /\ UNCHANGED or_pc
    /\ UNCHANGED <<wf_apps, continue_on_error, wf_idx, results, dependencies,
                   or_ret, called, ran>>
    /\ UNCHANGED not_orch

\* result = app.run(config, self.context); an exception of run() is turned
\* into a failure result
RunAppRun ==
    /\ or_pc = "app" /\ stack # <<>> /\ Top.at = "run"
    /\ \E success \in BOOLEAN :
          /\ ran' = Append(ran, Result(Top.app, success))
          /\ Return(success)
    /\ UNCHANGED <<or_pc, wf_apps, continue_on_error, wf_idx, results,
                   dependencies, called>>
    /\ UNCHANGED not_orch

\* a call of run_app has returned: to the dependency loop of its caller
\* (a failed dependency makes the caller return a failure), or to
\* run_workflow, which appends the result and breaks on a failure unless
\* continue_on_error
RunAppReturned ==
    /\ or_pc = "app" /\ or_ret # "none"
    /\ IF stack # <<>>
       THEN /\ Top.at = "wait"
            /\ IF or_ret = "ok"
               THEN /\ stack' = [stack EXCEPT ![Len(stack)] =
                                    Frame(Top.app, "deps", Top.dep + 1)]
                    /\ or_ret' = "none"
               ELSE Return(FALSE)
            /\ UNCHANGED <<or_pc, wf_idx, results>>
       ELSE /\ results' = Append(results,
                                Result(wf_apps[wf_idx], or_ret = "ok"))
            /\ or_ret' = "none"
            /\ IF or_ret = "fail" /\ ~continue_on_error
               THEN or_pc' = "returned" /\ UNCHANGED wf_idx
               ELSE or_pc' = "loop" /\ wf_idx' = wf_idx + 1
            /\ UNCHANGED stack
    /\ UNCHANGED <<wf_apps, continue_on_error, dependencies, called, ran>>
    /\ UNCHANGED not_orch

\* the caller of run_workflow has the results or the exception
WorkflowDone ==
    /\ or_pc \in {"returned", "raised"}
    /\ or_pc' = "idle"
    /\ wf_apps' = <<>>
    /\ continue_on_error' = FALSE
    /\ wf_idx' = 1
    /\ results' = <<>>
    /\ dependencies' = <<>>
    /\ stack' = <<>>
    /\ or_ret' = "none"
    /\ called' = <<>>
    /\ ran' = <<>>
    /\ UNCHANGED not_orch

NextOrch ==
    \/ WorkflowStart
    \/ WorkflowStep
    \/ RunAppCheck
    \/ RunAppDep
    \/ RunAppRun
    \/ RunAppReturned
    \/ WorkflowDone

SpecOrch == Init /\ [][NextOrch]_vars

\* ------------------------------------------------- get_valid_access_token
\* a login has ended: exchange_code_for_tokens saves what the token
\* endpoint gave
Login ==
    /\ tk_pc = "idle"
    /\ \E e \in Expiries, r \in BOOLEAN : token_store' = Tokens(e, r)
    /\ UNCHANGED <<tk_pc, tk_retries, tk_attempt, tk_out, tk_cause>>
    /\ UNCHANGED not_token

\* get_valid_access_token() is called on a manager with self.retries = n
GetToken ==
    /\ tk_pc = "idle"
    /\ \E n \in 1..MaxTokenRetries : tk_retries' = n
    /\ tk_pc' = "load"
    /\ UNCHANGED <<token_store, tk_attempt, tk_out, tk_cause>>
    /\ UNCHANGED not_token

\* _clear_tokens(): unlink the store; an OSError is passed over
ClearTokens ==
    \E unlink_ok \in BOOLEAN :
        token_store' = IF unlink_ok THEN NoStore ELSE token_store

\* the call ends raising EfaturaAuthNeedsReauth
RaiseNeedsReauth(why) ==
    /\ tk_pc' = "raised"
    /\ tk_out' = "NeedsReauth"
    /\ tk_cause' = why

\* except EfaturaAuthError: self._clear_tokens(); raise
\* EfaturaAuthNeedsReauth(...).  An EfaturaAuthError that is raised as
\* such is not caught by the except EfaturaAuthNeedsReauth clause before
\* it (that handler would be dead code otherwise)
AuthErrorHandler(why) ==
    /\ ClearTokens
    /\ RaiseNeedsReauth(why)

\* load_tokens and the checks before the refresh: no tokens -> the reauth
\* signal; a token with enough life left is returned; without a refresh
\* token -> the reauth signal; else refresh
TokenLoad ==
    /\ tk_pc = "load"
    /\ CASE ~token_store.held -> RaiseNeedsReauth("none")
         [] token_store.expires = "fresh" ->
              tk_pc' = "returned" /\ tk_out' = "token" /\ UNCHANGED tk_cause
         [] ~token_store.refresh_token -> RaiseNeedsReauth("none")
         [] OTHER ->
              tk_pc' = "discover" /\ UNCHANGED <<tk_out, tk_cause>>
    /\ UNCHANGED <<token_store, tk_retries, tk_attempt>>
    /\ UNCHANGED not_token

\* refresh_tokens: discover() gives the token endpoint, or raises
\* EfaturaAuthError when the discovery document cannot be fetched (every
\* attempt a network error or an HTTP error) or lacks a field
TokenDiscover ==
    /\ tk_pc = "discover"
    /\ \E d \in {"ok", "discovery_network", "discovery_invalid"} :
          IF d = "ok"
          THEN /\ tk_pc' = "post"
               /\ tk_attempt' = 1
               /\ UNCHANGED <<token_store, tk_out, tk_cause>>
          ELSE AuthErrorHandler(d) /\ UNCHANGED tk_attempt
    /\ UNCHANGED tk_retries
    /\ UNCHANGED not_token

\* for attempt in range(1, self.retries + 1) has ended
post_exhausted == tk_attempt > tk_retries

\* one attempt of _post_token_endpoint: the new tokens are saved and the
\* access token returned; invalid_grant clears the store in
\* _format_token_error and gives the reauth signal; another status >= 400
\* raises EfaturaAuthError; a requests exception goes to the next attempt
TokenPost ==
    /\ tk_pc = "post"
    /\ ~post_exhausted
    /\ \E x \in {"ok", "invalid_grant", "server_error", "network"} :
          CASE x = "ok" ->
                 /\ \E e \in Expiries : token_store' = Tokens(e, TRUE)
                 /\ tk_pc' = "returned"
                 /\ tk_out' = "token"
                 /\ UNCHANGED <<tk_attempt, tk_cause>>
            [] x = "invalid_grant" ->
                 /\ ClearTokens
                 /\ RaiseNeedsReauth(x)
                 /\ UNCHANGED tk_attempt
            [] x = "server_error" ->
                 AuthErrorHandler(x) /\ UNCHANGED tk_attempt
            [] OTHER ->
                 /\ tk_attempt' = tk_attempt + 1
                 /\ UNCHANGED <<tk_pc, token_store, tk_out, tk_cause>>
    /\ UNCHANGED tk_retries
    /\ UNCHANGED not_token

\* raise EfaturaAuthError("Falha ao chamar token endpoint: ...") after the
\* last attempt
TokenPostExhausted ==
    /\ tk_pc = "post"
    /\ post_exhausted
    /\ AuthErrorHandler("network")
    /\ UNCHANGED <<tk_retries, tk_attempt>>
    /\ UNCHANGED not_token

\* the caller has the token or the signal; the store stays as it is
TokenDone ==
    /\ tk_pc \in {"returned", "raised"}
    /\ tk_pc' = "idle"
    /\ tk_retries' = 1
    /\ tk_attempt' = 1
    /\ tk_out' = ""
    /\ tk_cause' = "none"
    /\ UNCHANGED token_store
    /\ UNCHANGED not_token

NextToken ==
    \/ Login
    \/ GetToken
    \/ TokenLoad
    \/ TokenDiscover
    \/ TokenPost
    \/ TokenPostExhausted
    \/ TokenDone

SpecToken == Init /\ [][NextToken]_vars

\* ============================================================== the claims
Listed == {uids[i] : i \in DOMAIN uids}

Min(a, b) == IF a < b THEN a ELSE b

\* the rows of one finished processing: nothing, one error row, or the
\* line rows 1..n in order
Whole(rs) ==
    \/ rs = <<>>
    \/ Len(rs) = 1 /\ IsErrorRow(rs[1])
    \/ \A i \in DOMAIN rs : IsLineRow(rs[i]) /\ rs[i].item = i

\* only line rows, or exactly one error row
OneKind(rs) ==
    \/ \A i \in DOMAIN rs : IsLineRow(rs[i])
    \/ Len(rs) = 1 /\ IsErrorRow(rs[1])

\* C1: at every point of every run, a crash included, the durable table
\* file holds for each UID no rows or the complete rows of one finished
\* processing (all its line rows, or its single error row), never a strict
\* subset of a document's rows.
C1_FileWhole == \A u \in UIDS : Whole(RowsOf(file, u))

\* C2: between documents the in-memory table, and at all times the saved
\* file, hold for each UID only line rows or exactly one error row: never
\* both kinds, never two error rows.
C2_OneKind ==
    /\ \A u \in UIDS : OneKind(RowsOf(file, u))
    /\ pc \in {"loop", "final"} => \A u \in UIDS : OneKind(RowsOf(ws, u))

\* C3: a run that starts with a dangling started_uid X whose rows are in
\* the table has, when its loop is over, processed X again (deleted its old
\* rows and written it anew), whatever the listing and the max-docs setting.
C3_DanglingRewritten ==
    (pc = "final" /\ dangling # NoUid) => dangling \in done

\* the listed UIDs the loop would not skip
Pending == {u \in Listed : ~(u \in existing_uids
                             /\ ~(args.rewrite_existing \/ resume_uid = u))}

\* a run starts right after a run that had no rewrite flag and returned
\* normally, with the same listing and again no rewrite flag
SecondRunStarts ==
    /\ pc = "idle" /\ pc' = "loop"
    /\ prev.ok
    /\ ~args'.rewrite_existing
    /\ uid_to_efdate' = prev.efd

\* C4: the second of two consecutive runs without the rewrite flag against
\* the same listing has no document to fetch and leaves the table as the
\* first run saved it, cell by cell.
C4_SecondRunNoChange ==
    [][SecondRunStarts => (Pending' = {} /\ ws' = file)]_vars

\* the part of C4 about fetching: the second run has no document to fetch
C4_SecondRunNoFetch == [][SecondRunStarts => Pending' = {}]_vars

\* the document in hand is between its started mark and its rows
InHand == pc \in {"fetch", "refs", "append", "except", "mark", "ckpt"}

\* C5: with rewrite-existing set, the rows of a UID that was in the table
\* are, from the moment it is taken in hand, exactly the rows newly
\* produced for it: old rows never stay beside new ones.
C5_RewriteReplaces ==
    (InHand /\ args.rewrite_existing) => RowsOf(ws, Cur) = new_rows

C5_Witness ==
    /\ pc = "ckpt" /\ args.rewrite_existing
    /\ Len(RowsOf(file, Cur)) = MaxLines
    /\ new_rows # <<>>
    /\ new_rows # RowsOf(file, Cur)

\* C6: while X is fetched, parsed or its line rows are appended the durable
\* ledger says started_uid = X and does not yet say completed_uid = X;
\* completed_uid = X is on disk only once X's rows are in the in-memory
\* table.
C6_LedgerWindow ==
    /\ InHand => ledger.started_uid = Cur
    /\ pc \in {"fetch", "refs", "append"} => ledger.completed_uid # Cur
    /\ pc = "ckpt" => (ledger.completed_uid = Cur /\ RowsOf(ws, Cur) # <<>>)

\* C7: after a fetch ended with the auth-needed signal or a persisting
\* permission failure, the loop is over with no row for that UID and the
\* ledger showing it started but not completed; the only step left is the
\* final save.
C7_AuthAbort ==
    (pc = "final" /\ stop = "auth") =>
        /\ RowsOf(ws, Cur) = <<>>
        /\ ledger.started_uid = Cur
        /\ ledger.completed_uid # Cur

\* the part of C7 that does not read completed_uid
C7_AuthAbortRows ==
    (pc = "final" /\ stop = "auth") =>
        (RowsOf(ws, Cur) = <<>> /\ ledger.started_uid = Cur)

UidUnique(rs) ==
    \A i, j \in DOMAIN rs :
        (i # j /\ UidOf(rs[i]) # NoUid) => UidOf(rs[i]) # UidOf(rs[j])

\* the endpoint answers the request in hand with a page it has answered
\* with before
ServesRepeatedPage ==
    /\ l_pc = "paging"
    /\ Len(served') = Len(served) + 1
    /\ served'[Len(served')] # <<>>
    /\ \E i \in DOMAIN served : served[i] = served'[Len(served')]

\* C10: whatever the endpoint answers, list_dfes makes at most MaxPages
\* page requests (it raises only after the MaxPages-th page, never
\* earlier); at the first page that repeats an earlier one it stops without
\* raising and returns the records collected before that page, no UID
\* twice among them.
C10_ListingStops ==
    /\ [](Len(served) <= MaxPages)
    /\ [](l_pc = "too_many_pages" => Len(served) = MaxPages)
    /\ [](UidUnique(records))
    /\ [][ServesRepeatedPage
            => (l_pc' = "returned" /\ records' = records)]_vars

C10_Witness ==
    /\ l_pc = "returned"
    /\ Len(served) = MaxPages
    /\ served[MaxPages] = served[MaxPages - 1]
    /\ \A i, j \in 1..(MaxPages - 1) : i # j => served[i] # served[j]
    /\ Len(records) >= MaxPages - 1

\* the answer to the request in hand is processed (it is not the call that
\* starts, and the request did not fail)
PageAnswered == l_pc = "paging" /\ Len(served') = Len(served) + 1

\* the records the step appends
Appended == SubSeq(records', Len(records) + 1, Len(records'))

\* C11: the records of list_dfes never hold two items with the same UID:
\* every record a page adds has a UID seen neither on an earlier page nor
\* earlier on the same page (or has no UID at all), and the records
\* already collected stay.
C11_NoDuplicateUid ==
    /\ [](UidUnique(records))
    /\ [][PageAnswered =>
            /\ SubSeq(records', 1, Len(records)) = records
            /\ \A i \in DOMAIN Appended :
                  UidOf(Appended[i]) # NoUid =>
                    /\ UidOf(Appended[i]) \notin seen_uids
                    /\ \A j \in 1..(i - 1) : Appended[j] # Appended[i]]_vars

C11_Witness ==
    /\ l_pc = "returned"
    /\ Len(served) >= 2
    /\ Len(served[1]) = 2 /\ served[1][1] = served[1][2] /\ served[1][1] > 0
    /\ \E i \in DOMAIN served[2] : served[2][i] = served[1][1]
    /\ Len(records) >= 2

\* the last answer carries a page number below its total page count and no
\* boolean completion field
MorePagesAnnounced ==
    /\ last_obj.last = "absent" /\ last_obj.hasNext = "absent"
    /\ last_obj.page > 0 /\ last_obj.page < last_obj.totalPages

\* C12: after a full page of new UIDs whose answer carries a page number
\* still below the total page count (and no boolean last/hasNext field),
\* list_dfes goes on to request the next page.
C12_PagesUntilTotal ==
    [][(PageAnswered /\ MorePagesAnnounced'
        /\ Len(served'[Len(served')]) >= page_size
        /\ Appended = served'[Len(served')]
        /\ \A i \in DOMAIN Appended : UidOf(Appended[i]) # NoUid
        /\ page < MaxPages)
       => (l_pc' = "paging" /\ page' = page + 1)]_vars

\* the same with the code's own test: the page number and the one after it
\* are both below the total
C12_PagesUntilBeforeTotal ==
    [][(PageAnswered /\ MorePagesAnnounced'
        /\ last_obj'.page + 1 < last_obj'.totalPages
        /\ Len(served'[Len(served')]) >= page_size
        /\ Appended = served'[Len(served')]
        /\ \A i \in DOMAIN Appended : UidOf(Appended[i]) # NoUid
        /\ page < MaxPages)
       => (l_pc' = "paging" /\ page' = page + 1)]_vars

\* the 401/403 answers that mention the token, among the exchanges so far
Perms == {i \in DOMAIN exchanges : exchanges[i] = "perm"}

\* C13: once _request has ended after a 401/403 that mentions the token
\* (and the token provider gave a fresh token), one more request was sent
\* after the first such answer, whatever self.retries >= 1 is and whatever
\* came before; and a second such answer ends the call with
\* PermissionError.
C13_OneAuthRetry ==
    (r_pc = "done" /\ Perms # {} /\ r_out # "NeedsReauth") =>
        /\ \E i \in Perms : i < Len(exchanges)
        /\ Cardinality(Perms) <= 2
        /\ Cardinality(Perms) = 2 => r_out = "PermissionError"

\* the same when the first such answer is not the answer to the last
\* attempt self.retries allows
C13_OneAuthRetryWithinBudget ==
    (r_pc = "done" /\ Perms # {} /\ r_out # "NeedsReauth"
     /\ \E i \in Perms : i < r_retries) =>
        /\ \E i \in Perms : i < Len(exchanges)
        /\ Cardinality(Perms) <= 2
        /\ Cardinality(Perms) = 2 => r_out = "PermissionError"

\* a run ends before the loop because list_dfes raised a non-auth exception
ListingRaised ==
    pc = "idle" /\ runs' = runs + 1 /\ last_exit'.cause = "listing_raised"

\* C14 as stated: exhausted retries at userinfo or at the listing call halt
\* the run before any document is processed: no UID is taken in hand or
\* completed, nothing is written, the process does not end with success.
C14_ExhaustionHalts ==
    /\ [](userinfo = "failed" => (~InHand /\ done = {}))
    /\ [][ListingRaised =>
            (pc' = "idle" /\ UNCHANGED <<file, ledger, ws>>
             /\ last_exit'.code # 0)]_vars

\* C14, the listing call alone: a listing that raises ends the run at once,
\* with the two files and the worksheet untouched, no listing kept and an
\* exit that is not a success.
C14_ListingHalts ==
    [][ListingRaised =>
          (pc' = "idle" /\ UNCHANGED <<file, ledger, ws>>
           /\ uids' = <<>> /\ ~InHand' /\ last_exit'.code # 0)]_vars

C14_Witness ==
    pc = "idle" /\ last_exit.cause = "listing_raised" /\ file # <<>>

\* the UIDs marked started in the run in progress
StartedInRun ==
    done \cup (IF InHand \/ (pc = "final" /\ stop \in {"auth", "locked"})
               THEN {Cur} ELSE {})

\* C15: with max-docs = N > 0 at most N UIDs are marked started in a run,
\* whether they end as line rows or as an error row.
C15_MaxDocs ==
    args.max_docs > 0 => Cardinality(StartedInRun) <= args.max_docs

\* the part of C15 the loop test does keep: at most N documents of a run
\* end as line rows
C15_MaxDocsWithLines ==
    args.max_docs > 0 => added_docs <= args.max_docs

\* the causes of a run's end that are auth fatal errors: at the initial
\* token check, at userinfo, at the listing call, inside the per-UID loop
AuthCauses == {"token", "userinfo_auth", "listing_auth", "auth"}

\* C16: a run that ends because of an auth fatal error, wherever it was
\* raised, returns a non-zero exit code; 0 is returned only by a run that no
\* such error cut short.
C16_AuthExitNonZero ==
    last_exit.cause \in AuthCauses => last_exit.code # 0

\* the part of C16 about the auth errors raised before the loop
C16_AuthExitBeforeLoop ==
    last_exit.cause \in AuthCauses \ {"auth"} => last_exit.code = 3

Dest(p) == fs[<<p, FALSE>>]

\* C17: a save writes the whole new content beside the destination and then
\* replaces the destination in one step: at every instant, a crash at any
\* step of a save included, the destination is the complete previous
\* content or the complete new content.
C17_AtomicSave ==
    /\ [](\A p \in Paths :
            /\ Dest(p) = Absent \/ Dest(p).n = Chunks
            /\ (sv_pc # "idle" /\ sv_path = <<p, FALSE>>) =>
                   Dest(p) \in {sv_old, Complete(sv_new)})
    /\ [][\A p \in Paths :
            Dest(p)' # Dest(p) =>
                /\ sv_pc = "replace" /\ sv_path = <<p, FALSE>>
                /\ Dest(p)' = Complete(sv_new)]_vars

\* a save of the table died while writing over an earlier complete save
C17_Witness ==
    /\ sv_pc = "idle"
    /\ Dest("table") = Complete(1)
    /\ fs[<<"table", TRUE>>] = [v |-> 2, n |-> 1]

\* the documents completed in this run whose rows the table file does not
\* hold as the worksheet does
Unsaved == {u \in done : RowsOf(file, u) # RowsOf(ws, u)}

NoCadence == args.save_every_docs = 0 /\ args.save_every_seconds = 0

\* C18: with save_every_docs = N > 0, once a document has completed and its
\* checkpoint has run, fewer than N documents completed since the last table
\* save; with both cadences 0 the table file is written at the end of the
\* run only; and every run that returns from the loop, the auth-aborted one
\* included, saves the table as its last step.
C18_SaveCadence ==
    /\ []((pc = "loop" /\ args.save_every_docs > 0) =>
             /\ Cardinality(Unsaved) < args.save_every_docs
             /\ docs_since_save < args.save_every_docs)
    /\ [][(NoCadence /\ pc # "final") => file' = file]_vars
    /\ [][(pc = "final" /\ pc' = "idle" /\ last_exit'.code = 0) =>
             file' = ws]_vars

\* a run that saves every second document has completed two: the first
\* checkpoint let the table file be, the second saved it
C18_Witness ==
    /\ pc = "loop"
    /\ args.save_every_docs = 2 /\ args.save_every_seconds = 0
    /\ Cardinality(done) = 2
    /\ Unsaved = {}
    /\ file = ws /\ file # <<>>

\* ensure_workbook is called on a table file that is there
Opened == xl_pc = "closed" /\ xl_opens' = xl_opens + 1 /\ xl_file.exists

\* C19: opening a table whose header row, as _read_header gives it, is
\* neither the 18-column schema nor the 17-column one raises and leaves the
\* file as it was: no worksheet is returned and no UID map is built.
C19_HeaderMismatchFails ==
    [][(Opened /\ _read_header(xl_file) \notin {COLUMNS, COLUMNS_V1}) =>
          /\ xl_pc' = "raised"
          /\ xl_file' = xl_file
          /\ xl_ws' = NoSheet
          /\ uid_map' = NoMap]_vars

\* a table with data rows whose header has the 17 names of the prior schema
\* with two of them swapped was refused
C19_Witness ==
    /\ xl_pc = "raised"
    /\ Len(xl_file.header) = Len(COLUMNS_V1)
    /\ xl_file.header[7] = "Numero Documento"
    /\ xl_file.rows # <<>>

\* the document type the prefix of a document number stands for
ExpectedTipo(num) ==
    CASE num = "FTE 0001" -> "Fatura Eletronica"
      [] num = "fre-7" -> "Fatura Recibo Eletronica"
      [] num = " NC 9" -> "Nota de Credito"
      [] OTHER -> ""

\* C20: opening a table with the 17-column header gives the 18-column
\* header with "Tipo de Documento" right before "Numero Documento", every
\* cell kept in its row under its column name, the new cell holding the type
\* the document number's prefix stands for or nothing, and the file saved at
\* once; opening the migrated table again changes nothing.
C20_Migration ==
    /\ [][(Opened /\ _read_header(xl_file) = COLUMNS_V1) =>
            /\ xl_pc' = "open"
            /\ xl_ws' = xl_file'
            /\ Len(xl_file'.header) = Len(xl_file.header) + 1
            /\ SubSeq(xl_file'.header, 1, Len(COLUMNS)) = COLUMNS
            /\ _read_header(xl_file') = COLUMNS
            /\ COLUMNS[Index(COLUMNS, "Numero Documento") - 1]
                   = "Tipo de Documento"
            /\ Len(xl_file'.rows) = Len(xl_file.rows)
            /\ \A r \in DOMAIN xl_file.rows :
                  /\ Len(xl_file'.rows[r]) = Len(xl_file.rows[r]) + 1
                  /\ \A c \in DOMAIN COLUMNS_V1 :
                        xl_file'.rows[r][Index(COLUMNS, COLUMNS_V1[c])]
                            = xl_file.rows[r][c]
                  /\ xl_file'.rows[r][Index(COLUMNS, "Tipo de Documento")]
                        = ExpectedTipo(xl_file.rows[r][
                              Index(COLUMNS_V1, "Numero Documento")])]_vars
    /\ [][(Opened /\ xl_opens >= 1 /\ _read_header(xl_orig) = COLUMNS_V1) =>
            (xl_pc' = "open" /\ xl_file' = xl_file /\ xl_ws' = xl_file)]_vars

\* a 17-column table with two data rows was migrated, one type inferred and
\* one left blank, and then opened again
C20_Witness ==
    /\ xl_pc = "open"
    /\ xl_opens = 2
    /\ _read_header(xl_orig) = COLUMNS_V1
    /\ xl_orig.header[1] = " UID "
    /\ Len(xl_file.rows) = 2
    /\ xl_file.rows[1][8] = "Fatura Eletronica"
    /\ xl_file.rows[2][8] = ""
    /\ xl_file.rows[2][9] = "FT2024/1"

\* the references that count: the listed ones but the document's own UID
Candidates == others(rf_all, OwnUid)

\* the first of them that answers with lines, 0 when none does
FirstWithLines ==
    IF \E i \in DOMAIN Candidates : HasLines(rf_docs[Candidates[i]])
    THEN CHOOSE i \in DOMAIN Candidates :
            /\ HasLines(rf_docs[Candidates[i]])
            /\ \A j \in 1..(i - 1) : ~HasLines(rf_docs[Candidates[j]])
    ELSE 0

C27_RefAuthAborts ==
    \A i \in DOMAIN rf_fetched :
        rf_docs[rf_fetched[i]] = "auth" =>
            /\ i = Len(rf_fetched)
            /\ rf_lines = 0
            /\ rf_error_rows = 0

\* what holds instead: the auth failure of a reference is passed over like
\* any other failure of a reference
C27_RefAuthPassedOver ==
    [][(rf_pc = "loop" /\ ref_uids # <<>>
        /\ rf_docs[Head(ref_uids)] = "auth")
       => (rf_pc' = "loop" /\ ref_uids' = Tail(ref_uids))]_vars

Abs(x) == IF x < 0 THEN -x ELSE x

\* y is x rounded to 2 decimals
IsRounded2(y, x) == y % Cent = 0 /\ 2 * Abs(y - x) <= Cent

\* quantity x unit price of the line, when both are there
Gross == Times(ln_in.qty[1], ln_in.unit_price[1])

HasGross == ln_in.qty # <<>> /\ ln_in.unit_price # <<>>

\* C22: line_total is the first value present among net total, extension
\* amount and generic total; with none of them it is quantity x unit price
\* rounded to 2 decimals when both are there, and absent otherwise.
\* Quantity 10, unit price 5.00 and extension amount 45.00 give 45.00.
C22_LineTotal ==
    ln_pc = "done" =>
        /\ ln_in.net # <<>> => ln_total = ln_in.net
        /\ (ln_in.net = <<>> /\ ln_in.ext # <<>>) => ln_total = ln_in.ext
        /\ (ln_in.net = <<>> /\ ln_in.ext = <<>> /\ ln_in.total # <<>>) =>
               ln_total = ln_in.total
        /\ (ln_in.net = <<>> /\ ln_in.ext = <<>> /\ ln_in.total = <<>>) =>
               IF HasGross
               THEN ln_total # <<>> /\ IsRounded2(ln_total[1], Gross)
               ELSE ln_total = <<>>
        /\ (ln_in.qty = <<10 * Scale>> /\ ln_in.unit_price = <<5 * Scale>>
            /\ ln_in.ext = <<45 * Scale>> /\ ln_in.net = <<>>) =>
               ln_total = <<45 * Scale>>

\* quantity 10 at 5.00 with extension amount 45.00 and a generic total of
\* 60.00: the total is 45.00, the discount 5.00
C22_Witness ==
    /\ ln_pc = "done"
    /\ ln_in.qty = <<10 * Scale>> /\ ln_in.unit_price = <<5 * Scale>>
    /\ ln_in.ext = <<45 * Scale>> /\ ln_in.net = <<>>
    /\ ln_in.total = <<60 * Scale>> /\ ln_in.discount = <<>>
    /\ ln_total = <<45 * Scale>>
    /\ ln_discount = <<5 * Scale>>

\* the total the discount is measured against: the extension amount, the
\* net total when there is no extension amount
DiscountBase == IF ln_in.ext # <<>> THEN ln_in.ext ELSE ln_in.net

\* C23: without an explicit discount field, when quantity, unit price and
\* an extension or net total are there, discount is unit price x quantity
\* minus that total, not below 0, rounded to 2 decimals, the extension amount
\* going before the net total; with an operand missing it is absent; an
\* explicit numeric discount field is kept as it is.
C23_Discount ==
    ln_pc = "done" =>
        IF ln_in.discount # <<>> THEN ln_discount = ln_in.discount
        ELSE IF HasGross /\ DiscountBase # <<>>
        THEN /\ ln_discount # <<>>
             /\ ln_discount[1] >= 0
             /\ IsRounded2(ln_discount[1],
                           max(Gross - DiscountBase[1], 0))
        ELSE ln_discount = <<>>

\* quantity 10 at 5.00 against an extension amount of 60.00 and a net total
\* of 45.00: the difference to the extension amount is negative, the
\* discount 0
C23_Witness ==
    /\ ln_pc = "done"
    /\ ln_in.qty = <<10 * Scale>> /\ ln_in.unit_price = <<5 * Scale>>
    /\ ln_in.ext = <<60 * Scale>> /\ ln_in.net = <<45 * Scale>>
    /\ ln_in.discount = <<>>
    /\ ln_discount = <<0>>


\* the text read leniently: "&amp;" and an "&" that starts no entity both
\* stand for the character "&" (written "AMP"), any other entity for itself
RECURSIVE Reading(_, _)
Reading(s, i) ==
    IF i > Len(s) THEN <<>>
    ELSE IF s[i] = "&" /\ i + 2 <= Len(s) /\ s[i + 1] = "amp" /\ s[i + 2] = ";"
         THEN <<"AMP">> \o Reading(s, i + 3)
    ELSE IF s[i] = "&" /\ ~entity_at(s, i)
         THEN <<"AMP">> \o Reading(s, i + 1)
    ELSE <<s[i]>> \o Reading(s, i + 1)

\* the text from its first "<" on (whole when it has none), without its
\* control characters
Kept(s) ==
    SelectSeq(IF \E i \in DOMAIN s : s[i] = "<"
              THEN SubSeq(s, CHOOSE i \in DOMAIN s :
                                 s[i] = "<" /\ \A j \in 1..(i - 1) : s[j] # "<",
                          Len(s))
              ELSE s,
              LAMBDA c : c # "ctl")

Sanitized == sx_calls > 0

\* C24: once safe_parse_xml has sanitized a text, the cleaned text has no
\* control character, starts at the first "<" of the raw text, has no "&"
\* that starts no entity, reads as the raw text reads (entities kept, every
\* other "&" now "&amp;"), and sanitizing it again changes nothing; the
\* sanitizer ran once at most, and only after the raw text failed to parse.
C24_Sanitize ==
    /\ sx_calls <= 1
    /\ Sanitized => sx_raw_failed
    /\ Sanitized =>
         /\ \A i \in DOMAIN cleaned : cleaned[i] # "ctl"
         /\ (\E i \in DOMAIN xml_text : xml_text[i] = "<") =>
                (cleaned # <<>> /\ cleaned[1] = "<")
         /\ \A i \in DOMAIN cleaned : cleaned[i] = "&" => entity_at(cleaned, i)
         /\ Reading(cleaned, 1) = Reading(Kept(xml_text), 1)
         /\ Len(cleaned) = Len(Kept(xml_text))
                + 2 * Cardinality({j \in DOMAIN Kept(xml_text) :
                          Kept(xml_text)[j] = "&"
                          /\ ~entity_at(Kept(xml_text), j)})
         /\ sanitize_xml_text(cleaned) = cleaned

\* text before the first "<", a control character and an "&" that starts no
\* entity: cleaned, then parsed
C24_Witness ==
    /\ sx_pc = "returned"
    /\ sx_calls = 1
    /\ xml_text = <<"g", "<", "ctl", "&", "g">>
    /\ cleaned = <<"<", "&", "amp", ";", "g">>


\* the UID the durable ledger reports as started and not completed
MaybePartial ==
    IF ledger.started_uid # ledger.completed_uid
    THEN {ledger.started_uid} \ {NoUid} ELSE {}

\* C25: at every point of a run the UIDs whose rows in the in-memory table
\* are not a complete set are among the one UID the ledger reports as
\* started and not completed; every other UID with rows has its whole set.
C25_OnePartial ==
    pc # "idle" =>
        /\ Cardinality(MaybePartial) <= 1
        /\ \A u \in UIDS : ~Whole(RowsOf(ws, u)) => u \in MaybePartial

\* what does hold: rows that are not a complete set belong to the document
\* whose append has just raised, or sit beside the error row the handler
\* then wrote for that UID
C25_PartialOnlyByHandler ==
    \A u \in UIDS : ~Whole(RowsOf(ws, u)) =>
        \/ pc = "except" /\ u = Cur
        \/ \E i \in DOMAIN ws : ws[i].uid = u /\ IsErrorRow(ws[i])


\* u was in the table when the run started and the run has not taken it in
\* hand (existing_uids only grows by the UID in hand), the run has no rewrite
\* flag and u is not the ledger's dangling started_uid
Settled(u) ==
    /\ pc # "idle"
    /\ u \in existing_uids
    /\ u \notin done
    /\ ~(InHand /\ Cur = u)
    /\ ~args.rewrite_existing
    /\ u # resume_uid

\* C26: for a UID that was in the table at run start, with no rewrite flag
\* and not the ledger's dangling started_uid, no step of the run takes it in
\* hand (marks it started, fetches it), removes or adds a row of it, or
\* writes the ledger for it.
C26_SkipFrame ==
    [][\A u \in UIDS : Settled(u) =>
          /\ ~(InHand' /\ Cur' = u)
          /\ pc' # "idle" => Len(RowsOf(ws', u)) = Len(RowsOf(ws, u))
          /\ ledger' # ledger => (InHand' /\ Cur' # u)]_vars

\* the loop has passed over such a UID after it processed another one
C26_Witness ==
    /\ pc = "loop" /\ idx = 3
    /\ done = {uids[1]}
    /\ Settled(uids[2])
    /\ RowsOf(ws, uids[2]) # <<>>
    /\ ledger.started_uid = uids[1]


\* the answer says that more pages follow: hasNext/hasMore true, or
\* last/isLast false
MoreSignalled(obj) == obj.last = "false" \/ obj.hasNext = "true"

\* the page just answered brought new items and has fewer items than
\* page_size
ShortNewPage ==
    /\ PageAnswered
    /\ Len(served'[Len(served')]) < page_size
    /\ Appended # <<>>

\* C28: when an answer says that more pages follow, a page of new items
\* that is shorter than page_size does not end the listing: list_dfes
\* requests the next page.
C28_ShortPageOnlyWithoutSignal ==
    [][(ShortNewPage /\ MoreSignalled(last_obj') /\ page < MaxPages)
       => (l_pc' = "paging" /\ page' = page + 1)]_vars

\* what the loop does: a short page of new items ends the listing whatever
\* the completion fields of the answer say
C28_ShortPageAlwaysStops ==
    [][ShortNewPage => (l_pc' = "returned" /\ page' = page)]_vars


\* C29: list_dfes never requests a page above the cap; when the page at
\* the cap is a full page of new items whose answer does not say it is the
\* last, the call raises instead of returning the records, and after the
\* raise it requests nothing more.
C29_PageCap ==
    /\ [](l_pc = "paging" => page <= MaxPages)
    /\ [](Len(served) <= MaxPages)
    /\ [][(PageAnswered /\ page = MaxPages
           /\ Len(served'[Len(served')]) >= page_size
           /\ Appended # <<>>
           /\ is_last_page(last_obj') # "true")
          => l_pc' = "too_many_pages"]_vars
    /\ [][l_pc = "too_many_pages" => UNCHANGED lvars]_vars

\* the page at the cap was a full page of new items and the call raised
C29_Witness ==
    /\ l_pc = "too_many_pages"
    /\ Len(served) = MaxPages
    /\ Len(served[MaxPages]) >= page_size
    /\ is_last_page(last_obj) = "none"
    /\ Len(records) >= MaxPages


\* the UID a data row stands under: its column 1 as text, stripped; none
\* for a cell that holds no text
RowUid(row) == IF is_str(row.uid) THEN strip(row.uid) ELSE ""

\* the UID asked for
AskedUid == IF dl_uid = NoneCell THEN "" ELSE strip(dl_uid)

\* C30: when delete_uid_rows has returned, no data row of the UID is left,
\* the header row is still row 1, the rows left are the rows of the other
\* UIDs (and the rows without one), each with its values, in their
\* original order, and the number returned is the number of rows gone; with
\* an empty uid nothing is removed and 0 is returned.
C30_DeleteUidRows ==
    dl_pc = "returned" =>
        /\ Len(dl_ws) >= 1 /\ dl_ws[1] = dl_ws0[1]
        /\ AskedUid # "" =>
              \A r \in 2..Len(dl_ws) : RowUid(dl_ws[r]) # AskedUid
        /\ \A r \in 2..Len(dl_ws0) :
              RowUid(dl_ws0[r]) # AskedUid =>
                  \E k \in DOMAIN dl_ws : dl_ws[k] = dl_ws0[r]
        /\ \A k \in DOMAIN dl_ws :
              /\ dl_ws[k].id \in DOMAIN dl_ws0
              /\ dl_ws[k] = dl_ws0[dl_ws[k].id]
        /\ \A j, k \in DOMAIN dl_ws : j < k => dl_ws[j].id < dl_ws[k].id
        /\ dl_deleted = Len(dl_ws0) - Len(dl_ws)
        /\ AskedUid = "" => (dl_ws = dl_ws0 /\ dl_deleted = 0)

\* two rows of the UID, one of them padded, around a row of another UID and
\* under a header: both are gone, the other row and the header stay
C30_Witness ==
    /\ dl_pc = "returned"
    /\ dl_uid = "CV0000000002"
    /\ Len(dl_ws0) = 4
    /\ dl_ws0[2].uid = " CV0000000002 "
    /\ dl_ws0[3].uid = "CV0000000001"
    /\ dl_ws0[4].uid = "CV0000000002"
    /\ dl_ws = <<dl_ws0[1], dl_ws0[3]>>
    /\ dl_deleted = 2


ColEf == Index(COLUMNS, "Data eFatura")
ColLast == Index(COLUMNS, "last_updated")

\* the listing has a date for the UID of data row k
ListedFor(k) == strip(bf_ws0.rows[k][1]) \in DOMAIN bf_efd

\* the data rows whose 'Data eFatura' the call changed
Filled == {k \in DOMAIN bf_ws0.rows : bf_ws.rows[k][ColEf] # bf_ws0.rows[k][ColEf]}

\* C31: when backfill_efatura_dates has returned, a row whose 'Data
\* eFatura' was blank and whose UID the listing dates holds that date, every
\* other 'Data eFatura' cell is as it was, no cell outside 'Data eFatura'
\* and last_updated of the filled rows has changed, and the number returned
\* is the number of rows filled.
C31_BackfillFrame ==
    bf_pc = "returned" =>
        /\ bf_ws.header = bf_ws0.header
        /\ Len(bf_ws.rows) = Len(bf_ws0.rows)
        /\ \A k \in DOMAIN bf_ws0.rows :
              /\ Len(bf_ws.rows[k]) = Len(bf_ws0.rows[k])
              /\ IF strip(bf_ws0.rows[k][ColEf]) = "" /\ ListedFor(k)
                 THEN bf_ws.rows[k][ColEf] = bf_efd[strip(bf_ws0.rows[k][1])]
                 ELSE bf_ws.rows[k] = bf_ws0.rows[k]
              /\ \A c \in DOMAIN bf_ws0.rows[k] :
                    bf_ws.rows[k][c] # bf_ws0.rows[k][c] =>
                        (k \in Filled /\ c \in {ColEf, ColLast})
        /\ bf_updated = Cardinality(Filled)

\* one row filled (its cell held blanks only), one row with a date left
\* alone although the listing dates its UID
C31_Witness ==
    /\ bf_pc = "returned"
    /\ Len(bf_ws0.rows) = 2
    /\ bf_ws0.rows[1][ColEf] = "  " /\ bf_ws.rows[1][ColEf] = "2024-02-01"
    /\ bf_ws0.rows[2][ColEf] = "2024-01-05" /\ ListedFor(2)
    /\ bf_ws.rows[2] = bf_ws0.rows[2]
    /\ bf_updated = 1


Started == get(lg_state, "started_uid")
Completed == get(lg_state, "completed_uid")

\* C32: compute_resume_uid returns started_uid when it is a non-empty
\* string other than completed_uid, and none for an empty state, a missing,
\* empty or non-string started_uid, and a started_uid equal to
\* completed_uid.
C32_ResumeUid ==
    lg_pc = "computed" =>
        /\ lg_resume \in {NoneCell, Started}
        /\ lg_resume # NoneCell =>
              (Started \notin {NoneCell, NumCell, ""} /\ Started # Completed)
        /\ DOMAIN lg_state = {} => lg_resume = NoneCell
        /\ "started_uid" \notin DOMAIN lg_state => lg_resume = NoneCell
        /\ Started \in {NoneCell, NumCell, ""} => lg_resume = NoneCell
        /\ Started = Completed => lg_resume = NoneCell
        /\ (Started \in {"CV0000000001", "CV0000000002"} /\ Started # Completed)
              => lg_resume = Started

\* a started_uid that is completed gives none
C32_Witness ==
    /\ lg_pc = "computed"
    /\ Started = "CV0000000002" /\ Completed = "CV0000000002"
    /\ lg_resume = NoneCell

\* C34: load_resume_state never raises, and for a ledger file that is
\* missing or not readable as JSON it returns the empty state, from which
\* the run takes no UID as in progress.
C34_LedgerUnreadable ==
    /\ lg_pc # "raised"
    /\ (lg_pc \in {"loaded", "computed"} /\ lg_file.kind # "json")
          => DOMAIN lg_state = {}
    /\ (lg_pc = "computed" /\ lg_file.kind # "json") => lg_resume = NoneCell

\* a ledger file that is not JSON, loaded
C34_Witness ==
    /\ lg_pc = "computed"
    /\ lg_file.kind = "garbage"
    /\ lg_resume = NoneCell


\* the element expected for the root's DocumentTypeCode, "" when the code
\* is not in the table
ExpectedElement ==
    IF strip(dfe_root.dtc) \in DOMAIN DTC_TO_ELEMENT
    THEN DTC_TO_ELEMENT[strip(dfe_root.dtc)] ELSE ""

\* the paths of the direct children, and of every element in document order
Direct == {<<i>> : i \in DOMAIN dfe_root.kids}
Everywhere == {iter(dfe_root)[k] : k \in DOMAIN iter(dfe_root)}

\* path a comes before path b in document order
Before(a, b) ==
    \E h, k \in DOMAIN iter(dfe_root) :
        h < k /\ iter(dfe_root)[h] = a /\ iter(dfe_root)[k] = b

\* the first path of S in document order that passes, <<0>> when none does
FirstOf(S, Passes(_)) ==
    IF \E a \in S : Passes(a)
    THEN CHOOSE a \in S : Passes(a) /\ \A b \in S : Passes(b) => ~Before(b, a)
    ELSE <<0>>

\* the node the priority order names, for a way of telling that an element
\* has a given name and a way of telling it for the full-tree search
Priority(Same(_, _), SameDeep(_, _)) ==
    LET t1 == FirstOf(Direct, LAMBDA a : ExpectedElement # ""
                        /\ Same(NameAt(dfe_root, a), ExpectedElement))
        t2 == FirstOf(Direct, LAMBDA a :
                        \E e \in DOC_ELEMENTS : Same(NameAt(dfe_root, a), e))
        t3 == FirstOf(Everywhere, LAMBDA a :
                        \E e \in DOC_ELEMENTS : SameDeep(NameAt(dfe_root, a), e))
    IN  IF t1 # <<0>> THEN t1
        ELSE IF t2 # <<0>> THEN t2
        ELSE IF t3 # <<0>> THEN t3
        ELSE <<>>

SameIgnoringCase(a, b) == lower(a) = lower(b)
SameExactly(a, b) == a = b

\* C33: the node returned is the first direct child named as the element
\* expected for the root's DocumentTypeCode; else the first direct child
\* named as a known document element; else the first such element anywhere
\* in the tree; else the root -- an element is told by its name in the same
\* way in all three steps, so a nested one is never chosen while a direct
\* child qualifies.
C33_PriorityOrder ==
    pk_pc = "returned" =>
        /\ pk_node = Priority(SameIgnoringCase, SameIgnoringCase)
        /\ (\E a \in Direct, e \in DOC_ELEMENTS :
                SameIgnoringCase(NameAt(dfe_root, a), e)) => Len(pk_node) = 1

\* the same with the names told exactly as the table spells them
C33_PriorityOrderExact ==
    pk_pc = "returned" => pk_node = Priority(SameExactly, SameExactly)

\* what the code does: the two passes over the direct children compare the
\* names exactly, the full-tree search compares them in lower case
C33_PriorityAsCoded ==
    pk_pc = "returned" =>
        /\ pk_node = Priority(SameExactly, SameIgnoringCase)
        /\ (\E a \in Direct : NameAt(dfe_root, a) \in DOC_ELEMENTS)
              => Len(pk_node) = 1


\* the entries of the workflow that name an app, in list order
Named == SelectSeq(wf_apps, LAMBDA n : n # "")

\* run_app was called for a prefix of the named entries, in list order, the
\* results are those of the calls, in order, and without continue_on_error
\* a failure is the last result
WorkflowInOrder ==
    /\ Len(called) <= Len(Named)
    /\ called = SubSeq(Named, 1, Len(called))
    /\ Len(results) <= Len(called)
    /\ \A k \in DOMAIN results : results[k].app = called[k]
    /\ or_pc \in {"loop", "returned"} => Len(results) = Len(called)
    /\ ~continue_on_error =>
          \A k \in DOMAIN results : ~results[k].success => Len(called) = k

\* C35: run_workflow runs the named apps in list order, the result list has
\* one entry per app run, in run order; without continue_on_error no app
\* is run after the first failure, and with it the workflow ends only once
\* every named app was run.
C35_WorkflowOrder ==
    or_pc # "idle" =>
        /\ WorkflowInOrder
        /\ (continue_on_error /\ or_pc \in {"returned", "raised"})
              => called = Named

\* the same for the workflows that return
C35_WorkflowOrderReturned ==
    or_pc # "idle" =>
        /\ WorkflowInOrder
        /\ (continue_on_error /\ or_pc = "returned") => called = Named

\* run() is invoked for an app only after each of its dependencies has run
\* with success; a failed dependency makes the caller return a failure
\* without invoking run(), and so does a call that returns from its checks
DependenciesFirst ==
    /\ [](\A k \in DOMAIN ran :
            \A d \in DOMAIN deps_of(ran[k].app) :
                \E h \in 1..(k - 1) :
                    ran[h] = Result(deps_of(ran[k].app)[d], TRUE))
    /\ [][(or_pc = "app" /\ or_ret = "fail" /\ stack # <<>>)
            => (ran' = ran /\ or_ret' = "fail"
                /\ Len(stack') = Len(stack) - 1)]_vars
    /\ [][(or_pc = "app" /\ stack # <<>> /\ Top.at = "check"
           /\ or_pc' = "app" /\ Len(stack') < Len(stack))
            => (ran' = ran /\ or_ret' = "fail")]_vars

\* C36: run_app runs the dependencies of an app, and theirs, with success
\* before the app's own run; a failed dependency or an invalid config gives
\* a failure result without the app's run; and every call of run_app comes
\* to its end with a result, whatever the apps declare as dependencies.
C36_DependenciesTerminate ==
    /\ DependenciesFirst
    /\ [](or_pc # "raised")

\* the part of C36 about the order holds
C36_DependenciesFirst == DependenciesFirst

\* the exchanges that gave a response which is not a token 401/403
Responses == {i \in DOMAIN exchanges : exchanges[i] \in {"ok", "http"}}

\* every HTTP request of the call is counted against self.retries, and a
\* response ends the call at once
RequestWithinBudget ==
    r_pc # "idle" =>
        /\ Len(exchanges) = r_attempts
        /\ Len(exchanges) <= r_retries
        /\ \A i \in Responses :
              i = Len(exchanges) /\ r_pc = "done" /\ r_out = "response"
        /\ r_pc = "done" =>
              r_out \in {"response", "PermissionError", "NeedsReauth",
                         "RuntimeError"}
        /\ r_out = "response" => Responses # {}

\* C37: one _request call sends at most self.retries HTTP requests, the
\* request after the auth retry among them; a response other than a token
\* 401/403 is returned by the exchange that gave it, with no further
\* request; and every call ends, returning a response or raising.
C37_RequestBudget ==
    /\ []RequestWithinBudget
    /\ (r_pc = "loop") ~> (r_pc = "done")

\* a call that used its whole budget, the auth retry included
C37_Witness ==
    /\ r_pc = "done" /\ r_retries = 3
    /\ exchanges = <<"perm", "timeout", "ok">>
    /\ r_retried_auth /\ r_out = "response"

\* the step that ends a run whose loop was left by the auth abort: the
\* forced save and return 0
AuthAbortEnds ==
    pc = "final" /\ stop = "auth" /\ last_exit' = Exit(0, "auth")

\* C38: a run that ends in an auth abort leaves in the table file every UID
\* that had rows there when the run started, the rewrite flag set or not,
\* the aborted UID the dangling started_uid or not.
C38_AbortKeepsRecorded ==
    [][AuthAbortEnds => had_rows \subseteq UidsIn(file')]_vars

\* every UID but the one in hand at the abort is kept
C38_AbortKeepsOthers ==
    [][AuthAbortEnds => (had_rows \ {Cur}) \subseteq UidsIn(file')]_vars

\* a step that deletes the token store
StoreDeleted == token_store.held /\ ~token_store'.held

\* C39: get_valid_access_token deletes the token store only when the token
\* endpoint rejects the refresh token with invalid_grant; a refresh that
\* fails for another reason (the network, another answer of the server)
\* leaves the stored tokens as they were, for a later call to use.
C39_ClearOnlyOnInvalidGrant ==
    /\ [][StoreDeleted => tk_cause' = "invalid_grant"]_vars
    /\ [][(tk_pc' = "raised" /\ tk_pc # "raised"
            /\ tk_cause' \notin {"none", "invalid_grant"})
           => token_store' = token_store]_vars

\* the store is deleted only by a call whose refresh failed, and that call
\* gives the reauth signal
C39_ClearOnlyOnFailedRefresh ==
    [][StoreDeleted =>
          /\ tk_pc \in {"discover", "post"}
          /\ tk_pc' = "raised" /\ tk_out' = "NeedsReauth"
          /\ tk_cause' # "none"]_vars

=============================================================================
